---- MODULE Spec2Model ----
(***************************************************************************)
(* Litter-robot presence detector (ESPHome component).                     *)
(*                                                                         *)
(* Task-based variant: a camera callback (producer), a dedicated FreeRTOS  *)
(* inference task (worker) and the host's cooperative loop share one       *)
(* component object.  The model follows the statements of the C++ source   *)
(* one step per shared-memory access.                                      *)
(***************************************************************************)
EXTENDS Integers, Sequences, FiniteSets, TLC

(* ------------------------------------------------------------------ *)
(* Bounds of the exploration                                           *)
(* ------------------------------------------------------------------ *)
MaxFrames == 2        \* frames the camera delivers in one run
MaxCycles == 2        \* worker iterations that reach request_image
MaxSamples == 9       \* samples fed to the smoother on its own
MaxStream == 9        \* samples fed to the smoother from a given window
MaxReads == 2         \* calls of get_prediction_result on one output tensor
MaxFlips == 2         \* passes of the XOR loop over one buffer
MaxEmaSamples == 40   \* samples fed to the EMA smoother
FracBits == 10        \* fraction bits of the model's doubles (53 in IEEE-754)

(* ------------------------------------------------------------------ *)
(* Program constants                                                   *)
(* ------------------------------------------------------------------ *)
PREDICTION_HISTORY_SIZE == 7
NumClasses == 3
SemMaxCount == 1      \* xSemaphoreCreateBinary: a queue of length one
TensorBytes == 6      \* input->bytes of the loaded model (scaled down)
StagingBytes == 6     \* INPUT_BUFFER_SIZE of the synchronous variant (scaled down)

CLASSES == <<"empty", "nachi", "ngao">>
ClassIdx == 0 .. (NumClasses - 1)
Bytes == 0 .. 255

API_REQUESTER == "API_REQUESTER"
OTHER_REQUESTER == "IDLE"
Requesters == {API_REQUESTER, OTHER_REQUESTER}

kTfLiteUInt8 == "kTfLiteUInt8"
kTfLiteInt8 == "kTfLiteInt8"

(* ------------------------------------------------------------------ *)
(* Frames: an id, the metadata of camera_fb_t and a payload            *)
(* ------------------------------------------------------------------ *)
FrameKinds == {"small", "exact", "big", "corrupt"}
NoFrame == [id |-> 0, kind |-> "none"]
Frames == [id : 1 .. (MaxFrames + 1), kind : FrameKinds]

FrameWidth(k) == 1
FrameHeight(k) == CASE k = "small" -> 1
                    [] k = "exact" -> 2
                    [] k = "corrupt" -> 2
                    [] k = "big" -> 3
                    [] OTHER -> 0
FrameCorrupt(k) == k = "corrupt"
\* RGB888 bytes the JPEG decodes to (row-major), for an undamaged frame
FramePixels(k) == CASE k = "small" -> <<0, 127, 255>>
                    [] k = "exact" -> <<1, 128, 254, 0, 127, 255>>
                    [] k = "corrupt" -> <<9, 200, 129, 64, 3, 130>>
                    [] k = "big" -> <<5, 6, 7, 8, 9, 10, 11, 12, 13>>
                    [] OTHER -> <<>>

VARIABLES
    status,               \* Component state: "construction" | "ready" | "failed"
    semaphore_,           \* handle: "uninit" | "valid" | "null"
    sem_count,            \* tokens held by the binary semaphore
    image_,               \* frame handoff slot
    image_lock_,          \* owner of the mutex: "free" | "callback" | "worker"
    inference_task_handle_, \* TRUE while the task handle is non-null
    callback_registered,  \* add_image_callback has run
    pending_state_,       \* cached label
    result_ready_,        \* pending-result flag
    prediction_history,   \* circular buffer
    last_index,           \* write index
    samples,              \* raw class indices handed to decide_state, in order
    current_predictions,  \* EMA accumulators (USE_EMA build), fixed-point
    input_type,           \* input->type
    input_buffer,         \* staging buffer of the synchronous variant
    input_tensor,         \* input->data.uint8[0 .. input->bytes)
    output_scores,        \* output->data.uint8[0..2]
    published,            \* labels handed to publish_state, in order
    requested,            \* the camera holds a request of API_REQUESTER
    next_frame,           \* id of the next frame the camera produces
    wpc,                  \* worker position
    w_image,              \* worker local `image`
    w_infer,              \* worker local: result of start_infer
    w_index,              \* worker local `index_to_update`
    cbpc,                 \* callback position
    cb_image,             \* callback argument `image`
    cb_requester,         \* who the callback's frame was requested by
    lpc,                  \* host loop position inside loop()
    spc,                  \* position inside on_shutdown
    crashed,              \* "none", or which bad handle aborted the program
    in_flight,            \* decode/Invoke executions currently using the arena
    cycle,                \* worker iterations that reached request_image
    obs                   \* observer: what the current worker cycle did

vars == <<status, semaphore_, sem_count, image_, image_lock_,
          inference_task_handle_, callback_registered, pending_state_,
          result_ready_, prediction_history, last_index, samples, current_predictions, input_type, input_buffer,
          input_tensor, output_scores, published, requested, next_frame,
          wpc, w_image, w_infer, w_index, cbpc, cb_image, cb_requester,
          lpc, spc, crashed, in_flight, cycle, obs>>

\* everything the component owns, without the positions of the contexts
component_vars == <<status, semaphore_, sem_count, image_, image_lock_,
                    inference_task_handle_, callback_registered,
                    pending_state_, result_ready_, prediction_history,
                    last_index, samples, current_predictions, input_type, input_buffer, input_tensor, output_scores,
                    published>>

(* ------------------------------------------------------------------ *)
(* Pure functions                                                      *)
(* ------------------------------------------------------------------ *)
\* data[i] |= 0x80 in place of the exclusive or
Xor80_SetsBit(b) == IF b >= 128 THEN b ELSE b + 128

\* data[i] ^= 0x80 : flip bit 7 of one byte
Xor80(b) == IF b >= 128 THEN b - 128 ELSE b + 128

\* a byte read as int8_t
AsInt8(b) == IF b >= 128 THEN b - 256 ELSE b

\* size_t required_size = rb->width * rb->height * 3 * sizeof(uint8_t)
\* (the largest frame of the sensor is far below the range of size_t,
\* so the product is exact)
required_size(w, h) == w * h * 3 * 1

\* the bounds check off by one
SizeCheckFails_OffByOne(required, capacity) == required >= capacity

\* if (required_size > input->bytes) return false
SizeCheckFails(required, capacity) == required > capacity

\* the first n bytes of src over the front of the buffer buf
WriteFront(buf, src, n) ==
    [i \in 1 .. Len(buf) |-> IF i <= n THEN src[i] ELSE buf[i]]

\* for (i = 0; i < input->bytes; i++) data[i] ^= 0x80
FlipAll(buf) == [i \in 1 .. Len(buf) |-> Xor80(buf[i])]

\* esp_jpeg_decode(&jpeg_cfg, &outimg) with outbuf = the tensor itself and
\* outbuf_size = input->bytes: an output larger than outbuf_size is refused,
\* a damaged stream is given up after some whole pixels have been written.
esp_jpeg_decode(buf, k) ==
    IF FrameWidth(k) * FrameHeight(k) * 3 > Len(buf)
    THEN {[ok |-> FALSE, buf |-> buf]}
    ELSE IF FrameCorrupt(k)
    THEN {[ok |-> FALSE, buf |-> WriteFront(buf, FramePixels(k), 3 * p)] :
              p \in 0 .. (FrameWidth(k) * FrameHeight(k) - 1)}
    ELSE {[ok |-> TRUE, buf |-> WriteFront(buf, FramePixels(k), Len(FramePixels(k)))]}

\* decode_jpg that flips whatever the type of the input tensor is
decode_jpg_AlwaysFlips(tensor, k, type) ==
    IF SizeCheckFails(required_size(FrameWidth(k), FrameHeight(k)), Len(tensor))
    THEN {[ok |-> FALSE, tensor |-> tensor]}
    ELSE {[ok |-> d.ok,
           tensor |-> IF d.ok THEN FlipAll(d.buf) ELSE d.buf] :
              d \in esp_jpeg_decode(tensor, k)}

\* decode_jpg: the possible (return value, tensor contents) pairs
decode_jpg(tensor, k, type) ==
    IF SizeCheckFails(required_size(FrameWidth(k), FrameHeight(k)), Len(tensor))
    THEN {[ok |-> FALSE, tensor |-> tensor]}
    ELSE {[ok |-> d.ok,
           tensor |-> IF d.ok /\ type = kTfLiteInt8 THEN FlipAll(d.buf) ELSE d.buf] :
              d \in esp_jpeg_decode(tensor, k)}

\* the argmax loop shared by get_prediction_result and decide_state:
\* for (i = 1; i < 3; ++i) if (v[i] > v[max]) max = i;
RECURSIVE ArgMaxLoop(_, _, _)
ArgMaxLoop(v, i, max) ==
    IF i >= NumClasses THEN max
    ELSE ArgMaxLoop(v, i + 1, IF v[i] > v[max] THEN i ELSE max)

\* the argmax loop started one element too late
get_prediction_result_SkipsFirst(scores) == ArgMaxLoop(scores, 2, 1)

get_prediction_result(scores) == ArgMaxLoop(scores, 1, 0)

\* class_counts[prediction_history[i]] += 1 over the whole buffer
ClassCounts(hist) ==
    [c \in ClassIdx |-> Cardinality({i \in DOMAIN hist : hist[i] = c})]

\* decide_state that returns the newest sample, without any vote
decide_state_NoVote(hist, idx, max_index) ==
    LET h2 == [hist EXCEPT ![idx] = max_index]
        i2 == IF idx + 1 = PREDICTION_HISTORY_SIZE THEN 0 ELSE idx + 1
    IN  [hist |-> h2, idx |-> i2, result |-> max_index]

\* decide_state that never advances the write index
decide_state_StuckIndex(hist, idx, max_index) ==
    LET h2 == [hist EXCEPT ![idx] = max_index]
    IN  [hist |-> h2, idx |-> idx, result |-> ArgMaxLoop(ClassCounts(h2), 1, 0)]

\* decide_state that never wraps the write index
decide_state_NoWrap(hist, idx, max_index) ==
    LET h2 == [i \in DOMAIN hist |-> IF i = idx THEN max_index ELSE hist[i]]
    IN  [hist |-> h2, idx |-> idx + 1, result |-> ArgMaxLoop(ClassCounts(h2), 1, 0)]

\* decide_state that counts the votes before it stores the new sample
decide_state_CountBeforeStore(hist, idx, max_index) ==
    LET h2 == [hist EXCEPT ![idx] = max_index]
        i2 == IF idx + 1 = PREDICTION_HISTORY_SIZE THEN 0 ELSE idx + 1
    IN  [hist |-> h2, idx |-> i2, result |-> ArgMaxLoop(ClassCounts(hist), 1, 0)]

\* decide_state, majority vote: store, advance the index, count, argmax
decide_state(hist, idx, max_index) ==
    LET h2 == [hist EXCEPT ![idx] = max_index]
        i2 == IF idx + 1 = PREDICTION_HISTORY_SIZE THEN 0 ELSE idx + 1
    IN  [hist |-> h2, idx |-> i2, result |-> ArgMaxLoop(ClassCounts(h2), 1, 0)]

\* a double is modelled as a fixed-point number with FracBits fraction bits:
\* the integer n stands for n / 2^FracBits, and every product is rounded to
\* the nearest representable value, ties to even, as IEEE-754 does. Between
\* 0.5 and 1 the doubles are exactly such a grid (with 53 fraction bits).
One == 2 ^ FracBits

\* n / d rounded to the nearest integer, an exact half to the even neighbour
RoundDiv(n, d) ==
    LET q == n \div d
        r == n % d
    IN  IF 2 * r > d THEN q + 1
        ELSE IF 2 * r = d THEN q + (q % 2)
        ELSE q

\* double ema_alpha{0.2}: the representable value nearest to 1/5
ema_alpha == RoundDiv(One, 5)

\* an update that forgets the old value of the accumulator
ema_update_NoMemory(acc, alpha, new_value) == alpha * new_value

\* ema_alpha * new_values[i] + (1 - ema_alpha) * current_predictions[i],
\* new_value being 0 or 1: the first product and the difference are exact,
\* the second product is rounded
ema_update(acc, alpha, new_value) ==
    alpha * new_value + RoundDiv((One - alpha) * acc, One)

\* the EMA decide_state with the argmax taken before the update
decide_state_ema_ArgmaxFirst(acc, alpha, max_index) ==
    [acc |-> [i \in ClassIdx |->
                 ema_update(acc[i], alpha, IF i = max_index THEN 1 ELSE 0)],
     result |-> ArgMaxLoop(acc, 1, 0)]

\* decide_state, USE_EMA build: update the three accumulators, then argmax
decide_state_ema(acc, alpha, max_index) ==
    LET a2 == [i \in ClassIdx |->
                  ema_update(acc[i], alpha, IF i = max_index THEN 1 ELSE 0)]
    IN  [acc |-> a2, result |-> ArgMaxLoop(a2, 1, 0)]

\* a counting semaphore in place of the binary one
xSemaphoreGive_Counting(count) == count + 1

\* xSemaphoreGive on a binary semaphore: a full queue refuses the token
xSemaphoreGive(count) == IF count < SemMaxCount THEN count + 1 ELSE count

\* the requester filter left out
was_requested_by_Any(req) == TRUE

\* image->was_requested_by(API_REQUESTER)
was_requested_by(req) == req = API_REQUESTER

\* the result of start_infer ignored
InferSucceeded_Always(r) == TRUE

\* start_infer: false when decode_jpg failed, else invokeStatus == kTfLiteOk
InferSucceeded(r) == r = "ok"

is_failed == status = "failed"
is_ready == status = "ready"

\* the program runs until a bad handle aborts it
Running == crashed = "none"

(* ------------------------------------------------------------------ *)
(* Initial state: the object after construction                        *)
(* ------------------------------------------------------------------ *)
ZeroTensor == [i \in 1 .. TensorBytes |-> 0]
ZeroBuffer == [i \in 1 .. StagingBytes |-> 0]

\* double current_predictions[3] = {0.0, 0.0, 0.0}
ZeroAcc == [c \in 0 .. (NumClasses - 1) |-> 0]
ZeroScores == [c \in ClassIdx |-> 0]
NoObs == [hist |-> [i \in 0 .. (PREDICTION_HISTORY_SIZE - 1) |-> 0], idx |-> 0,
          pending |-> "", frame |-> NoFrame, outcome |-> "none",
          used |-> {}, input |-> <<>>, asked |-> 0]

Init ==
    /\ status = "construction"
    /\ semaphore_ = "uninit"
    /\ sem_count = 0
    /\ image_ = NoFrame
    /\ image_lock_ = "free"
    /\ inference_task_handle_ = FALSE
    /\ callback_registered = FALSE
    /\ pending_state_ = ""
    /\ result_ready_ = FALSE
    /\ prediction_history = [i \in 0 .. (PREDICTION_HISTORY_SIZE - 1) |-> 0]
    /\ last_index = 0
    /\ samples = <<>>
    /\ current_predictions = ZeroAcc
    /\ input_type \in {kTfLiteUInt8, kTfLiteInt8}
    /\ input_buffer = ZeroBuffer
    /\ input_tensor = ZeroTensor
    /\ output_scores = ZeroScores
    /\ published = <<>>
    /\ requested = FALSE
    /\ next_frame = 1
    /\ wpc = "none"
    /\ w_image = NoFrame
    /\ w_infer = "none"
    /\ w_index = 0
    /\ cbpc = "idle"
    /\ cb_image = NoFrame
    /\ cb_requester = OTHER_REQUESTER
    /\ lpc = "idle"
    /\ spc = "none"
    /\ crashed = "none"
    /\ in_flight = 0
    /\ cycle = 0
    /\ obs = NoObs

(* ------------------------------------------------------------------ *)
(* setup()                                                             *)
(* ------------------------------------------------------------------ *)
\* setup() without the `return` after mark_failed(): the semaphore, the
\* callback and the task are created although the component is failed
Setup_NoReturnAfterMarkFailed ==
    /\ Running
    /\ status = "construction"
    /\ spc = "none"
    /\ \E camera_ok \in BOOLEAN, model_ok \in BOOLEAN :
          status' = IF ~camera_ok \/ ~model_ok THEN "failed" ELSE "ready"
    /\ semaphore_' = "valid"
    /\ sem_count' = 0
    /\ callback_registered' = TRUE
    /\ inference_task_handle_' = TRUE
    /\ wpc' = "top"
    /\ UNCHANGED <<image_, image_lock_, pending_state_, result_ready_,
                   prediction_history, last_index, samples, current_predictions, input_type,
                   input_buffer, input_tensor, output_scores, published,
                   requested, next_frame, w_image, w_infer, w_index, cbpc,
                   cb_image, cb_requester, lpc, spc, crashed, in_flight, cycle,
                   obs>>

\* camera missing/failed or setup_model() false: mark_failed and return;
\* otherwise create the semaphore, register the callback, start the task.
Setup ==
    /\ Running
    /\ status = "construction"
    /\ spc = "none"
    /\ \E camera_ok \in BOOLEAN, model_ok \in BOOLEAN :
          IF ~camera_ok \/ ~model_ok
          THEN /\ status' = "failed"
               /\ UNCHANGED <<semaphore_, sem_count, callback_registered,
                              inference_task_handle_, wpc>>
          ELSE /\ status' = "ready"
               /\ semaphore_' = "valid"
               /\ sem_count' = 0
               /\ callback_registered' = TRUE
               /\ inference_task_handle_' = TRUE
               /\ wpc' = "top"
    /\ UNCHANGED <<image_, image_lock_, pending_state_, result_ready_,
                   prediction_history, last_index, samples, current_predictions, input_type, input_buffer, input_tensor,
                   output_scores, published, requested, next_frame, w_image,
                   w_infer, w_index, cbpc, cb_image, cb_requester, lpc, spc, crashed,
                   in_flight, cycle, obs>>

(* ------------------------------------------------------------------ *)
(* Camera: the image callback registered in setup()                    *)
(* ------------------------------------------------------------------ *)
\* the camera hands a new frame to the registered callback:
\* if (image->was_requested_by(API_REQUESTER)) { ... } else return
CallbackEnter ==
    /\ Running
    /\ callback_registered
    /\ cbpc = "idle"
    /\ next_frame <= MaxFrames
    /\ \E k \in FrameKinds, r \in Requesters :
          /\ requested' = IF r = API_REQUESTER THEN FALSE ELSE requested
          /\ cb_requester' = r
          /\ IF was_requested_by(r)
             THEN /\ cb_image' = [id |-> next_frame, kind |-> k]
                  /\ cbpc' = "lock"
             ELSE UNCHANGED <<cb_image, cbpc>>
    /\ next_frame' = next_frame + 1
    /\ UNCHANGED <<component_vars, wpc, w_image, w_infer, w_index, lpc, spc,
                   crashed, in_flight, cycle, obs>>

\* std::lock_guard<std::mutex> lock(this->image_lock_)
CallbackLock ==
    /\ Running
    /\ cbpc = "lock"
    /\ image_lock_ = "free"
    /\ image_lock_' = "callback"
    /\ cbpc' = "write"
    /\ UNCHANGED <<status, semaphore_, sem_count, image_, inference_task_handle_,
                   callback_registered, pending_state_, result_ready_,
                   prediction_history, last_index, samples, current_predictions, input_type, input_buffer, input_tensor,
                   output_scores, published, requested, next_frame, wpc, w_image,
                   w_infer, w_index, cb_image, cb_requester, lpc, spc, crashed, in_flight,
                   cycle, obs>>

\* a callback that decodes the frame into the input tensor itself
CallbackWrite_AlsoDecodes ==
    /\ Running
    /\ cbpc = "write"
    /\ image_' = cb_image
    /\ cb_image' = NoFrame
    /\ cbpc' = "unlock"
    /\ \E d \in decode_jpg(input_tensor, cb_image.kind, input_type) :
          input_tensor' = d.tensor
    /\ UNCHANGED <<status, semaphore_, sem_count, image_lock_,
                   inference_task_handle_, callback_registered, pending_state_,
                   result_ready_, prediction_history, last_index, samples,
                   current_predictions, input_type, input_buffer,
                   output_scores, published, requested, next_frame,
                   wpc, w_image, w_infer, w_index, cb_requester, lpc, spc,
                   crashed, in_flight, cycle, obs>>

\* this->image_ = std::move(image)
CallbackWrite ==
    /\ Running
    /\ cbpc = "write"
    /\ image_' = cb_image
    /\ cb_image' = NoFrame
    /\ cbpc' = "unlock"
    /\ UNCHANGED <<status, semaphore_, sem_count, image_lock_,
                   inference_task_handle_, callback_registered, pending_state_,
                   result_ready_, prediction_history, last_index, samples, current_predictions, input_type, input_buffer,
                   input_tensor, output_scores, published, requested, next_frame,
                   wpc, w_image, w_infer, w_index, cb_requester, lpc, spc,
                   crashed, in_flight, cycle, obs>>

\* end of the lock_guard scope
CallbackUnlock ==
    /\ Running
    /\ cbpc = "unlock"
    /\ image_lock_' = "free"
    /\ cbpc' = "give"
    /\ UNCHANGED <<status, semaphore_, sem_count, image_, inference_task_handle_,
                   callback_registered, pending_state_, result_ready_,
                   prediction_history, last_index, samples, current_predictions, input_type, input_buffer, input_tensor,
                   output_scores, published, requested, next_frame, wpc, w_image,
                   w_infer, w_index, cb_image, cb_requester, lpc, spc, crashed, in_flight,
                   cycle, obs>>

\* xSemaphoreGive(this->semaphore_): on a deleted or null handle the
\* FreeRTOS queue code is handed freed memory
CallbackGive ==
    /\ Running
    /\ cbpc = "give"
    /\ IF semaphore_ = "valid"
       THEN /\ sem_count' = xSemaphoreGive(sem_count)
            /\ UNCHANGED crashed
       ELSE /\ crashed' = "give_on_released_semaphore"
            /\ UNCHANGED sem_count
    /\ cbpc' = "idle"
    /\ UNCHANGED <<status, semaphore_, image_, image_lock_,
                   inference_task_handle_, callback_registered, pending_state_,
                   result_ready_, prediction_history, last_index, samples, current_predictions, input_type, input_buffer,
                   input_tensor, output_scores, published, requested, next_frame,
                   wpc, w_image, w_infer, w_index, cb_image, cb_requester, lpc, spc,
                   in_flight, cycle, obs>>

(* ------------------------------------------------------------------ *)
(* inference_task(): the worker                                        *)
(* ------------------------------------------------------------------ *)
sync_vars == <<semaphore_, sem_count, image_, image_lock_>>
result_vars == <<pending_state_, result_ready_, published>>
hist_vars == <<prediction_history, last_index, samples, current_predictions>>
tensor_vars == <<input_type, input_buffer, input_tensor, output_scores>>
life_vars == <<status, inference_task_handle_, callback_registered>>
cb_vars == <<cbpc, cb_image, cb_requester>>
host_vars == <<lpc, spc>>

\* what Invoke() can leave in the output tensor
ScoreVectors ==
    {[c \in ClassIdx |-> IF c = w THEN hi ELSE 100] :
        w \in {1, 2}, hi \in {100, 200}}

\* if (this->is_failed()) vTaskDelete(NULL);
\* vTaskDelay(1000 ms); if (!this->is_ready()) continue;
WorkerTop ==
    /\ Running
    /\ wpc = "top"
    /\ wpc' = IF is_failed THEN "deleted"
              ELSE IF ~is_ready THEN "top" ELSE "request"
    /\ UNCHANGED <<sync_vars, result_vars, hist_vars, tensor_vars, life_vars,
                   cb_vars, host_vars, requested, next_frame, w_image, w_infer,
                   w_index, crashed, in_flight, cycle, obs>>

\* global_esp32_camera->request_image(API_REQUESTER)
WorkerRequest ==
    /\ Running
    /\ wpc = "request"
    /\ cycle < MaxCycles
    /\ requested' = TRUE
    /\ cycle' = cycle + 1
    /\ obs' = [hist |-> prediction_history, idx |-> last_index,
               pending |-> pending_state_, frame |-> NoFrame,
               outcome |-> "running",
               used |-> IF obs.frame = NoFrame THEN obs.used
                        ELSE obs.used \cup {obs.frame.id},
               input |-> <<>>, asked |-> next_frame]
    /\ wpc' = "take"
    /\ UNCHANGED <<sync_vars, result_vars, hist_vars, tensor_vars, life_vars,
                   cb_vars, host_vars, next_frame, w_image, w_infer, w_index,
                   crashed, in_flight>>

\* wait_for_image_: xSemaphoreTake(this->semaphore_, 200) == pdTRUE
WorkerTakeOk ==
    /\ Running
    /\ wpc = "take"
    /\ semaphore_ = "valid"
    /\ sem_count > 0
    /\ sem_count' = sem_count - 1
    /\ wpc' = "lock"
    /\ UNCHANGED <<semaphore_, image_, image_lock_, result_vars, hist_vars,
                   tensor_vars, life_vars, cb_vars, host_vars, requested,
                   next_frame, w_image, w_infer, w_index, crashed, in_flight,
                   cycle, obs>>

\* wait_for_image_ that waits with portMAX_DELAY: no token, no return
WorkerTakeTimeout_WaitsForever ==
    /\ Running
    /\ wpc = "take"
    /\ semaphore_ = "valid"
    /\ sem_count = 0
    /\ UNCHANGED vars

\* wait_for_image_: the 200 ticks pass without a token; image stays empty
WorkerTakeTimeout ==
    /\ Running
    /\ wpc = "take"
    /\ semaphore_ = "valid"
    /\ sem_count = 0
    /\ w_image' = NoFrame
    /\ wpc' = "got"
    /\ UNCHANGED <<sync_vars, result_vars, hist_vars, tensor_vars, life_vars,
                   cb_vars, host_vars, requested, next_frame, w_infer, w_index,
                   crashed, in_flight, cycle, obs>>

\* wait_for_image_: std::lock_guard<std::mutex> lock(this->image_lock_)
WorkerLock ==
    /\ Running
    /\ wpc = "lock"
    /\ image_lock_ = "free"
    /\ image_lock_' = "worker"
    /\ wpc' = "swap"
    /\ UNCHANGED <<semaphore_, sem_count, image_, result_vars, hist_vars,
                   tensor_vars, life_vars, cb_vars, host_vars, requested,
                   next_frame, w_image, w_infer, w_index, crashed, in_flight,
                   cycle, obs>>

\* wait_for_image_ that copies the slot instead of swapping with it
WorkerSwap_Copies ==
    /\ Running
    /\ wpc = "swap"
    /\ w_image' = image_
    /\ wpc' = "unlock"
    /\ UNCHANGED <<semaphore_, sem_count, image_, image_lock_, pending_state_,
                   result_ready_, published, prediction_history, last_index,
                   samples, current_predictions, input_type, input_buffer,
                   input_tensor, output_scores, status, inference_task_handle_,
                   callback_registered, cbpc, cb_image, cb_requester, lpc, spc,
                   requested, next_frame, w_infer, w_index, crashed, in_flight,
                   cycle, obs>>

\* wait_for_image_: image.swap(this->image_), image being empty
WorkerSwap ==
    /\ Running
    /\ wpc = "swap"
    /\ w_image' = image_
    /\ image_' = NoFrame
    /\ wpc' = "unlock"
    /\ UNCHANGED <<semaphore_, sem_count, image_lock_, result_vars, hist_vars,
                   tensor_vars, life_vars, cb_vars, host_vars, requested,
                   next_frame, w_infer, w_index, crashed, in_flight, cycle, obs>>

\* wait_for_image_: end of the lock_guard scope, return image
WorkerUnlock ==
    /\ Running
    /\ wpc = "unlock"
    /\ image_lock_' = "free"
    /\ wpc' = "got"
    /\ UNCHANGED <<semaphore_, sem_count, image_, result_vars, hist_vars,
                   tensor_vars, life_vars, cb_vars, host_vars, requested,
                   next_frame, w_image, w_infer, w_index, crashed, in_flight,
                   cycle, obs>>

\* if (!image) { "failed to acquire frame"; continue; }
WorkerCheckImage ==
    /\ Running
    /\ wpc = "got"
    /\ IF w_image = NoFrame
       THEN /\ wpc' = "top"
            /\ obs' = [obs EXCEPT !.outcome = "no_frame"]
       ELSE /\ wpc' = "clear"
            /\ obs' = [obs EXCEPT !.frame = w_image]
    /\ UNCHANGED <<sync_vars, result_vars, hist_vars, tensor_vars, life_vars,
                   cb_vars, host_vars, requested, next_frame, w_image, w_infer,
                   w_index, crashed, in_flight, cycle>>

\* this->image_ = nullptr;   (no lock is held here)
WorkerClearSlot ==
    /\ Running
    /\ wpc = "clear"
    /\ image_' = NoFrame
    /\ wpc' = "start_infer"
    /\ UNCHANGED <<semaphore_, sem_count, image_lock_, result_vars, hist_vars,
                   tensor_vars, life_vars, cb_vars, host_vars, requested,
                   next_frame, w_image, w_infer, w_index, crashed, in_flight,
                   cycle, obs>>

\* start_infer(image): get_raw_buffer, then decode_jpg begins on the arena
WorkerStartInfer ==
    /\ Running
    /\ wpc = "start_infer"
    /\ in_flight' = in_flight + 1
    /\ wpc' = "decode"
    /\ UNCHANGED <<sync_vars, result_vars, hist_vars, tensor_vars, life_vars,
                   cb_vars, host_vars, requested, next_frame, w_image, w_infer,
                   w_index, crashed, cycle, obs>>

\* a worker that gives up after the first failed cycle
WorkerBranch_FatalOnFailure(r) ==
    IF InferSucceeded(r)
    THEN /\ wpc' = "smooth"
         /\ w_infer' = r
         /\ UNCHANGED <<w_image, obs>>
    ELSE /\ wpc' = "deleted"
         /\ w_infer' = "none"
         /\ w_image' = NoFrame
         /\ obs' = [obs EXCEPT !.outcome = r]

\* a worker that goes on to smooth whatever start_infer returned
WorkerBranch_IgnoresResult(r) ==
    /\ wpc' = "smooth"
    /\ w_infer' = r
    /\ UNCHANGED <<w_image, obs>>

\* the iteration's branch on start_infer's result r:
\* if (!this->start_infer(image)) { "infer failed" } else { ... }
WorkerBranch(r) ==
    IF InferSucceeded(r)
    THEN /\ wpc' = "smooth"
         /\ w_infer' = r
         /\ UNCHANGED <<w_image, obs>>
    ELSE /\ wpc' = "top"
         /\ w_infer' = "none"
         /\ w_image' = NoFrame
         /\ obs' = [obs EXCEPT !.outcome = r]

\* decode_jpg(rb) returns; on failure start_infer returns false
WorkerDecode ==
    /\ Running
    /\ wpc = "decode"
    /\ \E d \in decode_jpg(input_tensor, w_image.kind, input_type) :
          /\ input_tensor' = d.tensor
          /\ IF d.ok
             THEN /\ wpc' = "invoke"
                  /\ UNCHANGED <<w_infer, w_image, obs, in_flight>>
             ELSE /\ in_flight' = in_flight - 1
                  /\ WorkerBranch("decode_failed")
    /\ UNCHANGED <<sync_vars, result_vars, hist_vars, input_type, input_buffer, output_scores,
                   life_vars, cb_vars, host_vars, requested, next_frame, w_index,
                   crashed, cycle>>

\* interpreter->Invoke(); return invokeStatus == kTfLiteOk
WorkerInvoke ==
    /\ Running
    /\ wpc = "invoke"
    /\ \E ok \in BOOLEAN, sc \in ScoreVectors :
          /\ output_scores' = sc
          /\ WorkerBranch(IF ok THEN "ok" ELSE "invoke_failed")
    /\ in_flight' = in_flight - 1
    /\ UNCHANGED <<sync_vars, result_vars, hist_vars, input_type, input_buffer, input_tensor,
                   life_vars, cb_vars, host_vars, requested, next_frame, w_index,
                   crashed, cycle>>

\* prediction_index = get_prediction_result();
\* index_to_update = decide_state(prediction_index);
WorkerSmooth ==
    /\ Running
    /\ wpc = "smooth"
    /\ LET r == decide_state(prediction_history, last_index,
                             get_prediction_result(output_scores))
       IN  /\ prediction_history' = r.hist
           /\ last_index' = r.idx
           /\ w_index' = r.result
    /\ samples' = Append(samples, get_prediction_result(output_scores))
    /\ UNCHANGED current_predictions
    /\ wpc' = "store"
    /\ UNCHANGED <<sync_vars, result_vars, tensor_vars, life_vars, cb_vars,
                   host_vars, requested, next_frame, w_image, w_infer, crashed,
                   in_flight, cycle, obs>>

\* this->pending_state_ = CLASSES[index_to_update];  the std::string
\* assignment begins (it is not one atomic store)
WorkerStoreBegin ==
    /\ Running
    /\ wpc = "store"
    /\ wpc' = "storing"
    /\ UNCHANGED <<sync_vars, result_vars, hist_vars, tensor_vars, life_vars,
                   cb_vars, host_vars, requested, next_frame, w_image, w_infer,
                   w_index, crashed, in_flight, cycle, obs>>

\* ... and completes
WorkerStoreEnd ==
    /\ Running
    /\ wpc = "storing"
    /\ pending_state_' = CLASSES[w_index + 1]
    /\ wpc' = "set_ready"
    /\ UNCHANGED <<sync_vars, result_ready_, published, hist_vars, tensor_vars,
                   life_vars, cb_vars, host_vars, requested, next_frame, w_image,
                   w_infer, w_index, crashed, in_flight, cycle, obs>>

\* a worker that publishes the label itself instead of raising the flag
WorkerSetReady_PublishesItself ==
    /\ Running
    /\ wpc = "set_ready"
    /\ published' = Append(published, pending_state_)
    /\ wpc' = "top"
    /\ w_image' = NoFrame
    /\ w_infer' = "none"
    /\ w_index' = 0
    /\ obs' = [obs EXCEPT !.outcome = w_infer]
    /\ UNCHANGED <<sync_vars, pending_state_, result_ready_, hist_vars,
                   tensor_vars, life_vars, cb_vars, host_vars, requested,
                   next_frame, crashed, in_flight, cycle>>

\* this->result_ready_ = true;  end of the iteration
WorkerSetReady ==
    /\ Running
    /\ wpc = "set_ready"
    /\ result_ready_' = TRUE
    /\ w_image' = NoFrame
    /\ w_infer' = "none"
    /\ w_index' = 0
    /\ obs' = [obs EXCEPT !.outcome = w_infer]
    /\ wpc' = "top"
    /\ UNCHANGED <<sync_vars, pending_state_, published, hist_vars, tensor_vars,
                   life_vars, cb_vars, host_vars, requested, next_frame, crashed,
                   in_flight, cycle>>

(* ------------------------------------------------------------------ *)
(* loop(): the host's cooperative loop                                 *)
(* ------------------------------------------------------------------ *)
\* what a std::string holds when it is read during an assignment to it
TORN == "<torn>"

\* the values a read of pending_state_ can return in the current state
ReadPending ==
    IF wpc = "storing"
    THEN {pending_state_, CLASSES[w_index + 1], TORN}
    ELSE {pending_state_}

\* loop() that publishes without looking at the flag
LoopCheck_Unconditional ==
    /\ Running
    /\ status = "ready"
    /\ lpc = "idle"
    /\ spc \in {"none", "done"}
    /\ lpc' = "publish"
    /\ UNCHANGED <<component_vars, requested, next_frame, wpc, w_image, w_infer,
                   w_index, cb_vars, spc, crashed, in_flight, cycle, obs>>

\* loop() of the synchronous variant left in place: the host loop starts
\* a decode on the arena of its own
LoopCheck_AlsoInfers ==
    /\ Running
    /\ status = "ready"
    /\ lpc = "idle"
    /\ spc \in {"none", "done"}
    /\ in_flight < 2
    /\ in_flight' = in_flight + 1
    /\ UNCHANGED <<sync_vars, result_vars, hist_vars, tensor_vars, life_vars,
                   cb_vars, host_vars, requested, next_frame, wpc, w_image,
                   w_infer, w_index, crashed, cycle, obs>>

\* if (this->result_ready_)
LoopCheck ==
    /\ Running
    /\ status = "ready"
    /\ lpc = "idle"
    /\ spc \in {"none", "done"}
    /\ lpc' = IF result_ready_ THEN "publish" ELSE "idle"
    /\ UNCHANGED <<sync_vars, result_vars, hist_vars, tensor_vars, life_vars,
                   cb_vars, spc, requested, next_frame, wpc, w_image, w_infer,
                   w_index, crashed, in_flight, cycle, obs>>

\* this->publish_state(this->pending_state_)
LoopPublish ==
    /\ Running
    /\ lpc = "publish"
    /\ \E label \in ReadPending : published' = Append(published, label)
    /\ lpc' = "clear"
    /\ UNCHANGED <<sync_vars, pending_state_, result_ready_, hist_vars,
                   tensor_vars, life_vars, cb_vars, spc, requested, next_frame,
                   wpc, w_image, w_infer, w_index, crashed, in_flight, cycle, obs>>

\* loop() that forgets to clear the flag after publishing
LoopClear_KeepsFlag ==
    /\ Running
    /\ lpc = "clear"
    /\ lpc' = "idle"
    /\ UNCHANGED <<component_vars, requested, next_frame, wpc, w_image, w_infer,
                   w_index, cb_vars, spc, crashed, in_flight, cycle, obs>>

\* this->result_ready_ = false
LoopClear ==
    /\ Running
    /\ lpc = "clear"
    /\ result_ready_' = FALSE
    /\ lpc' = "idle"
    /\ UNCHANGED <<sync_vars, pending_state_, published, hist_vars, tensor_vars,
                   life_vars, cb_vars, spc, requested, next_frame, wpc, w_image,
                   w_infer, w_index, crashed, in_flight, cycle, obs>>

(* ------------------------------------------------------------------ *)
(* on_shutdown(): called by the host between two loop() calls          *)
(* ------------------------------------------------------------------ *)
\* this->image_ = nullptr;   (no lock is held here)
ShutdownClearImage ==
    /\ Running
    /\ status # "construction"
    /\ lpc = "idle"
    /\ spc = "none"
    /\ image_' = NoFrame
    /\ spc' = "task"
    /\ UNCHANGED <<semaphore_, sem_count, image_lock_, result_vars, hist_vars,
                   tensor_vars, life_vars, cb_vars, lpc, requested, next_frame,
                   wpc, w_image, w_infer, w_index, crashed, in_flight, cycle, obs>>

\* on_shutdown that goes on to the semaphore without deleting the task
ShutdownDeleteTask_Skipped ==
    /\ Running
    /\ spc = "task"
    /\ spc' = "sem"
    /\ UNCHANGED <<component_vars, requested, next_frame, wpc, w_image, w_infer,
                   w_index, cb_vars, lpc, crashed, in_flight, cycle, obs>>

\* if (handle != nullptr) { vTaskDelete(handle); handle = nullptr; }
ShutdownDeleteTask ==
    /\ Running
    /\ spc = "task"
    /\ IF inference_task_handle_
       THEN /\ wpc' = "deleted"
            /\ inference_task_handle_' = FALSE
            /\ in_flight' = 0
            /\ crashed' = IF wpc = "deleted" THEN "delete_of_deleted_task"
                           ELSE "none"
       ELSE UNCHANGED <<wpc, inference_task_handle_, in_flight, crashed>>
    /\ spc' = "sem"
    /\ UNCHANGED <<sync_vars, result_vars, hist_vars, tensor_vars, status,
                   callback_registered, cb_vars, lpc, requested, next_frame,
                   w_image, w_infer, w_index, cycle, obs>>

\* vSemaphoreDelete(this->semaphore_); this->semaphore_ = nullptr;
\* deleting a handle that setup never created hands garbage to FreeRTOS
ShutdownDeleteSem ==
    /\ Running
    /\ spc = "sem"
    /\ IF semaphore_ = "valid"
       THEN /\ semaphore_' = "null"
            /\ sem_count' = 0
            /\ UNCHANGED crashed
       ELSE /\ crashed' = "delete_of_uncreated_semaphore"
            /\ UNCHANGED <<semaphore_, sem_count>>
    /\ spc' = "done"
    /\ UNCHANGED <<image_, image_lock_, result_vars, hist_vars, tensor_vars,
                   life_vars, cb_vars, lpc, requested, next_frame, wpc, w_image,
                   w_infer, w_index, in_flight, cycle, obs>>

(* ------------------------------------------------------------------ *)
(* The task-based component                                            *)
(* ------------------------------------------------------------------ *)
Next ==
    \/ Setup
    \/ CallbackEnter
    \/ CallbackLock
    \/ CallbackWrite
    \/ CallbackUnlock
    \/ CallbackGive
    \/ WorkerTop
    \/ WorkerRequest
    \/ WorkerTakeOk
    \/ WorkerTakeTimeout
    \/ WorkerLock
    \/ WorkerSwap
    \/ WorkerUnlock
    \/ WorkerCheckImage
    \/ WorkerClearSlot
    \/ WorkerStartInfer
    \/ WorkerDecode
    \/ WorkerInvoke
    \/ WorkerSmooth
    \/ WorkerStoreBegin
    \/ WorkerStoreEnd
    \/ WorkerSetReady
    \/ LoopCheck
    \/ LoopPublish
    \/ LoopClear
    \/ ShutdownClearImage
    \/ ShutdownDeleteTask
    \/ ShutdownDeleteSem

Spec == Init /\ [][Next]_vars

\* one step of the worker task
WorkerNext ==
    \/ WorkerTop
    \/ WorkerRequest
    \/ WorkerTakeOk
    \/ WorkerTakeTimeout
    \/ WorkerSwap
    \/ WorkerUnlock
    \/ WorkerCheckImage
    \/ WorkerClearSlot
    \/ WorkerStartInfer
    \/ WorkerDecode
    \/ WorkerInvoke
    \/ WorkerSmooth
    \/ WorkerStoreBegin
    \/ WorkerStoreEnd
    \/ WorkerSetReady

\* The task-based component under the scheduling FreeRTOS gives it: the
\* worker task (created with priority 1 on core 1, and leaving the CPU in
\* vTaskDelay every iteration) runs whenever it is ready, and the 200 tick
\* timeout of xSemaphoreTake expires; a callback that holds image_lock_
\* leaves its lock_guard scope; a task waiting for the mutex gets it once
\* it is released often enough.  decode_jpg and Invoke return (WorkerDecode
\* and WorkerInvoke are steps of WorkerNext).
SpecLive ==
    /\ Init
    /\ [][Next]_vars
    /\ WF_vars(WorkerNext)
    /\ SF_vars(WorkerLock)
    /\ WF_vars(CallbackWrite)
    /\ WF_vars(CallbackUnlock)

\* The running component after three completed and published cycles that
\* each saw class 1: three votes for class 1 against four zero slots, so
\* the stable label is still "empty" and one more vote for class 1 turns it
ThreeVotes == [i \in 0 .. (PREDICTION_HISTORY_SIZE - 1) |-> IF i < 3 THEN 1 ELSE 0]

InitWarm ==
    /\ status = "ready"
    /\ semaphore_ = "valid"
    /\ sem_count = 0
    /\ image_ = NoFrame
    /\ image_lock_ = "free"
    /\ inference_task_handle_ = TRUE
    /\ callback_registered = TRUE
    /\ pending_state_ = CLASSES[1]
    /\ result_ready_ = FALSE
    /\ prediction_history = ThreeVotes
    /\ last_index = 3
    /\ samples = <<1, 1, 1>>
    /\ current_predictions = ZeroAcc
    /\ input_type \in {kTfLiteUInt8, kTfLiteInt8}
    /\ input_buffer = ZeroBuffer
    /\ input_tensor \in {d.tensor : d \in {e \in decode_jpg(ZeroTensor, "small", input_type) : e.ok}}
    /\ output_scores = [c \in ClassIdx |-> IF c = 1 THEN 200 ELSE 100]
    /\ published = <<CLASSES[1], CLASSES[1], CLASSES[1]>>
    /\ requested = FALSE
    /\ next_frame = 1
    /\ wpc = "top"
    /\ w_image = NoFrame
    /\ w_infer = "none"
    /\ w_index = 0
    /\ cbpc = "idle"
    /\ cb_image = NoFrame
    /\ cb_requester = OTHER_REQUESTER
    /\ lpc = "idle"
    /\ spc = "none"
    /\ crashed = "none"
    /\ in_flight = 0
    /\ cycle = 0
    /\ obs = [NoObs EXCEPT !.hist = ThreeVotes, !.idx = 3, !.pending = CLASSES[1]]

\* the running component: everything but setup()
NextWarm ==
    \/ CallbackEnter
    \/ CallbackLock
    \/ CallbackWrite
    \/ CallbackUnlock
    \/ CallbackGive
    \/ WorkerNext
    \/ WorkerLock
    \/ LoopCheck
    \/ LoopPublish
    \/ LoopClear
    \/ ShutdownClearImage
    \/ ShutdownDeleteTask
    \/ ShutdownDeleteSem

SpecWarm == InitWarm /\ [][NextWarm]_vars

TypeOK ==
    /\ status \in {"construction", "ready", "failed"}
    /\ semaphore_ \in {"uninit", "valid", "null"}
    /\ sem_count \in 0 .. 2
    /\ image_ \in Frames \cup {NoFrame}
    /\ image_lock_ \in {"free", "callback", "worker"}
    /\ last_index \in 0 .. (PREDICTION_HISTORY_SIZE - 1)
    /\ samples \in Seq(ClassIdx)
    /\ \A c \in ClassIdx : current_predictions[c] \in 0 .. One
    /\ Len(input_buffer) = StagingBytes
    /\ in_flight \in 0 .. 2

(* ------------------------------------------------------------------ *)
(* The synchronous variant: loop() runs the whole pipeline itself      *)
(* ------------------------------------------------------------------ *)
\* what the freshly allocated, never cleared staging buffer can hold
FreshBuffers == {ZeroBuffer, [i \in 1 .. StagingBytes |-> 170]}

\* .outbuf_size = rb->width * rb->height * 3 * sizeof(uint16_t)
outbuf_size(w, h) == w * h * 3 * 2

\* decode_jpg of the synchronous variant: esp_jpeg_decode writes RGB888 into
\* input_buffer and is told the buffer holds outbuf_size bytes; there is no
\* check against the real size of input_buffer, so a frame larger than the
\* buffer is written past its end ("overflow"): the buffer then holds the
\* front of the picture and the rest has landed in the heap behind it.
sync_decode_jpg(buffer, k) ==
    IF FrameWidth(k) * FrameHeight(k) * 3 > outbuf_size(FrameWidth(k), FrameHeight(k))
    THEN {[ok |-> FALSE, overflow |-> FALSE, buf |-> buffer]}
    ELSE IF FrameWidth(k) * FrameHeight(k) * 3 > Len(buffer)
    THEN {[ok |-> ~FrameCorrupt(k), overflow |-> TRUE,
           buf |-> WriteFront(buffer, FramePixels(k), Len(buffer))]}
    ELSE {[ok |-> d.ok, overflow |-> FALSE, buf |-> d.buf] :
              d \in esp_jpeg_decode(buffer, k)}

\* memcpy(input->data.uint8, this->input_buffer, input->bytes)
memcpy(tensor, buffer) ==
    [i \in 1 .. Len(tensor) |-> IF i <= Len(buffer) THEN buffer[i] ELSE tensor[i]]

\* setup() of the synchronous variant: no mutex, no task
SyncSetup ==
    /\ Running
    /\ status = "construction"
    /\ spc = "none"
    /\ \E camera_ok \in BOOLEAN, model_ok \in BOOLEAN :
          IF ~camera_ok \/ ~model_ok
          THEN /\ status' = "failed"
               /\ UNCHANGED <<semaphore_, sem_count, callback_registered,
                              input_buffer>>
          ELSE /\ status' = "ready"
               /\ input_buffer' \in FreshBuffers
               /\ semaphore_' = "valid"
               /\ sem_count' = 0
               /\ callback_registered' = TRUE
    /\ UNCHANGED <<image_, image_lock_, inference_task_handle_, result_vars,
                   hist_vars, input_type, input_tensor, output_scores, requested,
                   next_frame, wpc, w_image, w_infer, w_index, cb_vars,
                   host_vars, crashed, in_flight, cycle, obs>>

\* the image callback is entered: if (image->was_requested_by(API_REQUESTER))
SyncCallbackEnter ==
    /\ Running
    /\ callback_registered
    /\ cbpc = "idle"
    /\ next_frame <= MaxFrames
    /\ \E k \in FrameKinds, r \in Requesters :
          /\ requested' = IF r = API_REQUESTER THEN FALSE ELSE requested
          /\ cb_requester' = r
          /\ IF was_requested_by(r)
             THEN /\ cb_image' = [id |-> next_frame, kind |-> k]
                  /\ cbpc' = "write"
             ELSE UNCHANGED <<cb_image, cbpc>>
    /\ next_frame' = next_frame + 1
    /\ UNCHANGED <<component_vars, wpc, w_image, w_infer, w_index, lpc, spc,
                   crashed, in_flight, cycle, obs>>

\* this->image_ = std::move(image)   (no lock in this variant)
SyncCallbackWrite ==
    /\ Running
    /\ cbpc = "write"
    /\ image_lock_ = "free"
    /\ inference_task_handle_ = FALSE
    /\ image_' = cb_image
    /\ cb_image' = NoFrame
    /\ cbpc' = "give"
    /\ UNCHANGED <<semaphore_, sem_count, image_lock_, result_vars, hist_vars,
                   tensor_vars, life_vars, cb_requester, host_vars, requested,
                   next_frame, wpc, w_image, w_infer, w_index, crashed,
                   in_flight, cycle, obs>>

\* loop(): is_ready() holds; request_image(API_REQUESTER)
SyncRequest ==
    /\ Running
    /\ is_ready
    /\ lpc = "idle"
    /\ spc = "none"
    /\ inference_task_handle_ = FALSE
    /\ cycle < MaxCycles
    /\ cycle' = cycle + 1
    /\ requested' = TRUE
    /\ obs' = [hist |-> prediction_history, idx |-> last_index,
               pending |-> pending_state_, frame |-> NoFrame,
               outcome |-> "running",
               used |-> IF obs.frame = NoFrame THEN obs.used
                        ELSE obs.used \cup {obs.frame.id},
               input |-> <<>>, asked |-> next_frame]
    /\ lpc' = "swap1"
    /\ UNCHANGED <<component_vars, next_frame, wpc, w_image, w_infer, w_index,
                   cb_vars, spc, crashed, in_flight>>

\* wait_for_image_: image.swap(this->image_); if (!image) retry
SyncSwapFirst ==
    /\ Running
    /\ lpc = "swap1"
    /\ w_image' = image_
    /\ image_' = NoFrame
    /\ lpc' = IF image_ = NoFrame THEN "take" ELSE "check"
    /\ UNCHANGED <<semaphore_, sem_count, image_lock_, result_vars, hist_vars,
                   tensor_vars, life_vars, cb_vars, spc, requested, next_frame,
                   wpc, w_infer, w_index, crashed, in_flight, cycle, obs>>

\* xSemaphoreTake(this->semaphore_, 30): a token is taken, or the 30 ticks
\* pass; the return value is not looked at
SyncTake ==
    /\ Running
    /\ lpc = "take"
    /\ sem_count' = IF sem_count > 0 THEN sem_count - 1 ELSE sem_count
    /\ lpc' = "swap2"
    /\ UNCHANGED <<semaphore_, image_, image_lock_, result_vars, hist_vars,
                   tensor_vars, life_vars, cb_vars, spc, requested, next_frame,
                   wpc, w_image, w_infer, w_index, crashed, in_flight, cycle, obs>>

\* image.swap(this->image_) after the wait; return image
SyncSwapSecond ==
    /\ Running
    /\ lpc = "swap2"
    /\ w_image' = image_
    /\ image_' = NoFrame
    /\ lpc' = "check"
    /\ UNCHANGED <<semaphore_, sem_count, image_lock_, result_vars, hist_vars,
                   tensor_vars, life_vars, cb_vars, spc, requested, next_frame,
                   wpc, w_infer, w_index, crashed, in_flight, cycle, obs>>

\* if (!image) return;  this->image_ = nullptr;
SyncCheckImage ==
    /\ Running
    /\ lpc = "check"
    /\ IF w_image = NoFrame
       THEN /\ lpc' = "idle"
            /\ obs' = [obs EXCEPT !.outcome = "no_frame"]
            /\ UNCHANGED <<image_, in_flight>>
       ELSE /\ lpc' = "decode"
            /\ image_' = NoFrame
            /\ in_flight' = in_flight + 1
            /\ obs' = [obs EXCEPT !.frame = w_image]
    /\ UNCHANGED <<semaphore_, sem_count, image_lock_, result_vars, hist_vars,
                   tensor_vars, life_vars, cb_vars, spc, requested, next_frame,
                   wpc, w_image, w_infer, w_index, crashed, cycle>>

\* how a pass of loop() goes on after start_infer returned r
SyncBranch(r) ==
    IF InferSucceeded(r)
    THEN /\ lpc' = "smooth"
         /\ w_infer' = r
         /\ UNCHANGED <<w_image, obs>>
    ELSE /\ lpc' = "idle"
         /\ w_infer' = "none"
         /\ w_image' = NoFrame
         /\ obs' = [obs EXCEPT !.outcome = r]

\* start_infer: decode_jpg(rb) into input_buffer, then the memcpy into the
\* input tensor; a frame larger than input_buffer corrupts the heap, which
\* either brings the program down or goes unnoticed
SyncDecode ==
    /\ Running
    /\ lpc = "decode"
    /\ \E d \in sync_decode_jpg(input_buffer, w_image.kind) :
          /\ input_buffer' = d.buf
          /\ \/ /\ d.overflow
                /\ crashed' = "write_past_input_buffer"
                /\ UNCHANGED <<input_tensor, lpc, w_infer, w_image, obs, in_flight>>
             \/ /\ d.ok
                /\ input_tensor' = memcpy(input_tensor, d.buf)
                /\ lpc' = "invoke"
                /\ UNCHANGED <<w_infer, w_image, obs, in_flight, crashed>>
             \/ /\ ~d.ok
                /\ ~d.overflow
                /\ in_flight' = in_flight - 1
                /\ SyncBranch("decode_failed")
                /\ UNCHANGED <<input_tensor, crashed>>
    /\ UNCHANGED <<sync_vars, result_vars, hist_vars, input_type, output_scores,
                   life_vars, cb_vars, spc, requested, next_frame, wpc, w_index,
                   cycle>>

\* interpreter->Invoke(); return invokeStatus == kTfLiteOk
SyncInvoke ==
    /\ Running
    /\ lpc = "invoke"
    /\ \E ok \in BOOLEAN, sc \in ScoreVectors :
          /\ output_scores' = sc
          /\ SyncBranch(IF ok THEN "ok" ELSE "invoke_failed")
    /\ in_flight' = in_flight - 1
    /\ UNCHANGED <<sync_vars, result_vars, hist_vars, input_type, input_buffer,
                   input_tensor, life_vars, cb_vars, spc, requested, next_frame,
                   wpc, w_index, crashed, cycle>>

\* get_prediction_result(); decide_state(); publish_state(CLASSES[index])
SyncSmoothPublish ==
    /\ Running
    /\ lpc = "smooth"
    /\ LET r == decide_state(prediction_history, last_index,
                             get_prediction_result(output_scores))
       IN  /\ prediction_history' = r.hist
           /\ last_index' = r.idx
           /\ published' = Append(published, CLASSES[r.result + 1])
    /\ samples' = Append(samples, get_prediction_result(output_scores))
    /\ UNCHANGED current_predictions
    /\ obs' = [obs EXCEPT !.outcome = w_infer]
    /\ w_image' = NoFrame
    /\ w_infer' = "none"
    /\ lpc' = "idle"
    /\ UNCHANGED <<sync_vars, pending_state_, result_ready_, tensor_vars,
                   life_vars, cb_vars, spc, requested, next_frame, wpc, w_index,
                   crashed, in_flight, cycle>>

\* on_shutdown of the synchronous variant: this->image_ = nullptr
SyncShutdownClearImage ==
    /\ Running
    /\ status # "construction"
    /\ inference_task_handle_ = FALSE
    /\ lpc = "idle"
    /\ spc = "none"
    /\ image_' = NoFrame
    /\ spc' = "sem"
    /\ UNCHANGED <<semaphore_, sem_count, image_lock_, result_vars, hist_vars,
                   tensor_vars, life_vars, cb_vars, lpc, requested, next_frame,
                   wpc, w_image, w_infer, w_index, crashed, in_flight, cycle, obs>>

NextSync ==
    \/ SyncSetup
    \/ SyncCallbackEnter
    \/ SyncCallbackWrite
    \/ CallbackGive
    \/ SyncRequest
    \/ SyncSwapFirst
    \/ SyncTake
    \/ SyncSwapSecond
    \/ SyncCheckImage
    \/ SyncDecode
    \/ SyncInvoke
    \/ SyncSmoothPublish
    \/ SyncShutdownClearImage
    \/ ShutdownDeleteSem

SpecSync == Init /\ [][NextSync]_vars

(* ------------------------------------------------------------------ *)
(* The smoother on its own: decide_state applied to any class sequence *)
(* ------------------------------------------------------------------ *)
\* one call of decide_state(max_index) on the constructed object
SmoothStep ==
    /\ Len(samples) < MaxSamples
    /\ \E max_index \in ClassIdx :
          LET r == decide_state(prediction_history, last_index, max_index)
          IN  /\ prediction_history' = r.hist
              /\ last_index' = r.idx
              /\ w_index' = r.result
              /\ samples' = Append(samples, max_index)
              /\ UNCHANGED current_predictions
    /\ UNCHANGED <<sync_vars, result_vars, tensor_vars, life_vars, cb_vars,
                   host_vars, requested, next_frame, wpc, w_image, w_infer,
                   crashed, in_flight, cycle, obs>>

NextSmooth == SmoothStep

SpecSmooth == Init /\ [][NextSmooth]_vars

(* ------------------------------------------------------------------ *)
(* The smoother from any window contents, fed a stream that settles    *)
(* ------------------------------------------------------------------ *)
\* the component after any number (at least W) of recorded samples: every
\* buffer content and write index can have been left behind, and the value
\* last returned is the vote over that buffer
InitWindow ==
    /\ status = "construction"
    /\ semaphore_ = "uninit"
    /\ sem_count = 0
    /\ image_ = NoFrame
    /\ image_lock_ = "free"
    /\ inference_task_handle_ = FALSE
    /\ callback_registered = FALSE
    /\ pending_state_ = ""
    /\ result_ready_ = FALSE
    /\ prediction_history \in [0 .. (PREDICTION_HISTORY_SIZE - 1) -> ClassIdx]
    /\ last_index \in 0 .. (PREDICTION_HISTORY_SIZE - 1)
    /\ samples = <<>>
    /\ current_predictions = ZeroAcc
    /\ input_type = kTfLiteUInt8
    /\ input_buffer = ZeroBuffer
    /\ input_tensor = ZeroTensor
    /\ output_scores = ZeroScores
    /\ published = <<>>
    /\ requested = FALSE
    /\ next_frame = 1
    /\ wpc = "none"
    /\ w_image = NoFrame
    /\ w_infer = "none"
    /\ w_index = ArgMaxLoop(ClassCounts(prediction_history), 1, 0)
    /\ cbpc = "idle"
    /\ cb_image = NoFrame
    /\ cb_requester = OTHER_REQUESTER
    /\ lpc = "idle"
    /\ spc = "none"
    /\ crashed = "none"
    /\ in_flight = 0
    /\ cycle = 0
    /\ obs = [NoObs EXCEPT !.hist = prediction_history, !.idx = last_index]

\* one call of decide_state(max_index); after the first two samples the raw
\* classification stays what it was in the sample before
WindowStep ==
    /\ Len(samples) < MaxStream
    /\ \E max_index \in ClassIdx :
          /\ Len(samples) >= 2 => max_index = samples[Len(samples)]
          /\ LET r == decide_state(prediction_history, last_index, max_index)
             IN  /\ prediction_history' = r.hist
                 /\ last_index' = r.idx
                 /\ w_index' = r.result
          /\ samples' = Append(samples, max_index)
    /\ UNCHANGED <<sync_vars, result_vars, current_predictions, tensor_vars,
                   life_vars, cb_vars, host_vars, requested, next_frame, wpc,
                   w_image, w_infer, crashed, in_flight, cycle, obs>>

NextWindow == WindowStep

SpecWindow == InitWindow /\ [][NextWindow]_vars

(* ------------------------------------------------------------------ *)
(* get_prediction_result on its own, for any output tensor             *)
(* ------------------------------------------------------------------ *)
\* quantized scores the output tensor is filled with
ScoreLevels == {0, 1, 127, 128, 255}

\* the component with any scores left in the output tensor by Invoke()
InitScores ==
    /\ status = "construction"
    /\ semaphore_ = "uninit"
    /\ sem_count = 0
    /\ image_ = NoFrame
    /\ image_lock_ = "free"
    /\ inference_task_handle_ = FALSE
    /\ callback_registered = FALSE
    /\ pending_state_ = ""
    /\ result_ready_ = FALSE
    /\ prediction_history = [i \in 0 .. (PREDICTION_HISTORY_SIZE - 1) |-> 0]
    /\ last_index = 0
    /\ samples = <<>>
    /\ current_predictions = ZeroAcc
    /\ input_type = kTfLiteUInt8
    /\ input_buffer = ZeroBuffer
    /\ input_tensor = ZeroTensor
    /\ output_scores \in [ClassIdx -> ScoreLevels]
    /\ published = <<>>
    /\ requested = FALSE
    /\ next_frame = 1
    /\ wpc = "none"
    /\ w_image = NoFrame
    /\ w_infer = "none"
    /\ w_index = 0
    /\ cbpc = "idle"
    /\ cb_image = NoFrame
    /\ cb_requester = OTHER_REQUESTER
    /\ lpc = "idle"
    /\ spc = "none"
    /\ crashed = "none"
    /\ in_flight = 0
    /\ cycle = 0
    /\ obs = NoObs

\* prediction_index = get_prediction_result(), called on the same output
\* tensor up to MaxReads times
ReadPrediction ==
    /\ Len(samples) < MaxReads
    /\ samples' = Append(samples, get_prediction_result(output_scores))
    /\ UNCHANGED <<sync_vars, result_vars, prediction_history, last_index,
                   current_predictions, tensor_vars, life_vars, cb_vars,
                   host_vars, requested, next_frame, wpc, w_image, w_infer,
                   w_index, crashed, in_flight, cycle, obs>>

NextScores == ReadPrediction

SpecScores == InitScores /\ [][NextScores]_vars

(* ------------------------------------------------------------------ *)
(* The input tensor's bytes: decode_jpg and its bit-flip on their own  *)
(* ------------------------------------------------------------------ *)
\* buffers that between them hold every byte value at every position
BytePatterns ==
    {[i \in 1 .. TensorBytes |-> (b + k * i) % 256] : b \in Bytes, k \in {0, 1, 37}}

\* the component with any bytes in its input tensor; obs.input keeps the
\* bytes the XOR loop is then run on
InitBits ==
    /\ status = "construction"
    /\ semaphore_ = "uninit"
    /\ sem_count = 0
    /\ image_ = NoFrame
    /\ image_lock_ = "free"
    /\ inference_task_handle_ = FALSE
    /\ callback_registered = FALSE
    /\ pending_state_ = ""
    /\ result_ready_ = FALSE
    /\ prediction_history = [i \in 0 .. (PREDICTION_HISTORY_SIZE - 1) |-> 0]
    /\ last_index = 0
    /\ samples = <<>>
    /\ current_predictions = ZeroAcc
    /\ input_type \in {kTfLiteUInt8, kTfLiteInt8}
    /\ input_buffer = ZeroBuffer
    /\ input_tensor \in BytePatterns
    /\ output_scores = ZeroScores
    /\ published = <<>>
    /\ requested = FALSE
    /\ next_frame = 1
    /\ wpc = "none"
    /\ w_image = NoFrame
    /\ w_infer = "none"
    /\ w_index = 0
    /\ cbpc = "idle"
    /\ cb_image = NoFrame
    /\ cb_requester = OTHER_REQUESTER
    /\ lpc = "idle"
    /\ spc = "none"
    /\ crashed = "none"
    /\ in_flight = 0
    /\ cycle = 0
    /\ obs = [NoObs EXCEPT !.input = input_tensor]

\* the loop of decode_jpg over the tensor: data[i] ^= 0x80 for every i;
\* cycle counts the passes of the loop over the same buffer
BitsFlip ==
    /\ input_type = kTfLiteInt8
    /\ cycle < MaxFlips
    /\ cycle' = cycle + 1
    /\ input_tensor' = FlipAll(input_tensor)
    /\ UNCHANGED <<sync_vars, result_vars, hist_vars, input_type, input_buffer,
                   output_scores, life_vars, cb_vars, host_vars, requested,
                   next_frame, wpc, w_image, w_infer, w_index, crashed,
                   in_flight, obs>>

\* decode_jpg(rb) on a frame of any kind; obs notes the frame, the return
\* value and what the call left in the tensor
BitsDecode ==
    /\ next_frame <= MaxFrames
    /\ \E k \in FrameKinds :
          \E d \in decode_jpg(input_tensor, k, input_type) :
              /\ input_tensor' = d.tensor
              /\ obs' = [obs EXCEPT !.frame = [id |-> next_frame, kind |-> k],
                                    !.outcome = IF d.ok THEN "ok"
                                                ELSE "decode_failed",
                                    !.input = d.tensor]
    /\ next_frame' = next_frame + 1
    /\ cycle' = 0
    /\ UNCHANGED <<sync_vars, result_vars, hist_vars, input_type, input_buffer,
                   output_scores, life_vars, cb_vars, host_vars, requested,
                   wpc, w_image, w_infer, w_index, crashed, in_flight>>

NextBits ==
    \/ BitsFlip
    \/ BitsDecode

SpecBits == InitBits /\ [][NextBits]_vars

(* ------------------------------------------------------------------ *)
(* The EMA smoother (USE_EMA build) on its own                         *)
(* ------------------------------------------------------------------ *)
\* one call of decide_state(max_index) of the USE_EMA build; after the first
\* two samples the raw classification stays what it was in the sample before
EmaStep ==
    /\ Len(samples) < MaxEmaSamples
    /\ \E max_index \in ClassIdx :
          /\ Len(samples) >= 2 => max_index = samples[Len(samples)]
          /\ LET r == decide_state_ema(current_predictions, ema_alpha, max_index)
             IN  /\ current_predictions' = r.acc
                 /\ w_index' = r.result
          /\ samples' = Append(samples, max_index)
    /\ UNCHANGED <<sync_vars, result_vars, prediction_history, last_index,
                   tensor_vars, life_vars, cb_vars, host_vars, requested,
                   next_frame, wpc, w_image, w_infer, crashed, in_flight, cycle,
                   obs>>

NextEma == EmaStep

SpecEma == Init /\ [][NextEma]_vars

(* ------------------------------------------------------------------ *)
(* Properties                                                          *)
(* ------------------------------------------------------------------ *)
NextIndex(i) == (i + 1) % PREDICTION_HISTORY_SIZE
FailedOutcomes == {"no_frame", "decode_failed", "invoke_failed"}
Labels == {CLASSES[i] : i \in 1 .. NumClasses}

\* C1: a worker cycle that ended in an acquisition timeout, a decode failure
\* or a non-ok inference left the prediction history, the write index and the
\* cached stable label exactly as they were when the cycle began; a cycle in
\* which all three succeeded stored exactly one sample (one slot written, the
\* index advanced by one).
C1_HistoryOncePerCompletedCycle ==
    /\ obs.outcome \in FailedOutcomes =>
          /\ prediction_history = obs.hist
          /\ last_index = obs.idx
          /\ pending_state_ = obs.pending
    /\ obs.outcome = "ok" =>
          /\ last_index = NextIndex(obs.idx)
          /\ \A i \in (DOMAIN prediction_history) \ {obs.idx} :
                prediction_history[i] = obs.hist[i]

\* C1 witness: the second cycle failed in decode after the first one had
\* recorded a sample
C1_Witness ==
    /\ obs.outcome = "decode_failed"
    /\ cycle = 2
    /\ last_index = 1

\* C2: every context that is at a read or write of the handoff slot image_
\* holds image_lock_, and no two contexts are at a slot access together.
C2_SlotAccessUnderLock ==
    /\ cbpc = "write" => image_lock_ = "callback"
    /\ wpc = "swap" => image_lock_ = "worker"
    /\ wpc = "clear" => image_lock_ = "worker"
    /\ ~(cbpc = "write" /\ wpc \in {"swap", "clear"})

\* C3: at most one decode/inference uses the arena at any time, and the
\* worker is at request_image or at the start of start_infer only when no
\* decode or inference is executing.
C3_OneInferenceInFlight ==
    /\ in_flight <= 1
    /\ wpc \in {"request", "take", "start_infer"} => in_flight = 0

\* C3 witness: the inference of the second cycle is running while the
\* camera callback is inside its critical section
C3_Witness ==
    /\ wpc = "invoke"
    /\ in_flight = 1
    /\ cycle = 2
    /\ cbpc = "write"

\* C4: loop() never reads pending_state_ while the worker is in the middle
\* of writing it, and every label handed to publish_state is one of the
\* class labels a completed cycle computed.
C4_FlagSafePublish ==
    /\ ~(lpc = "publish" /\ wpc = "storing")
    /\ \A i \in DOMAIN published : published[i] \in Labels

\* C5: once on_shutdown has released the semaphore, no code path hands the
\* released handle to FreeRTOS again.
C5_NoUseAfterShutdown ==
    crashed # "give_on_released_semaphore"

\* C6: a frame leaves the handoff slot only by being overwritten by a newer
\* frame or by being taken by the worker (or dropped by on_shutdown), so the
\* newest delivered frame stays in the slot until the worker takes it.
C6_NewestFrameKept ==
    [][(image_ # NoFrame /\ image_' # image_) =>
          \/ image_'.id > image_.id
          \/ (wpc = "swap" /\ w_image' = image_ /\ image_' = NoFrame)
          \/ (spc = "none" /\ spc' = "task")]_vars

\* C7: a frame callback whose requester is not API_REQUESTER returns at once
\* and leaves the slot, the semaphore and all other component state unchanged.
C7_ForeignFrameDiscarded ==
    [][(next_frame' # next_frame /\ cb_requester' # API_REQUESTER) =>
          /\ cbpc' = "idle"
          /\ UNCHANGED <<component_vars, cb_image, wpc, w_image, w_infer,
                         w_index, lpc, spc, crashed, in_flight, cycle, obs>>]_vars

\* C7 witness: the second frame, not requested by API_REQUESTER, was
\* discarded while the first frame was waiting in the slot
C7_Witness ==
    /\ next_frame = 3
    /\ cb_requester = OTHER_REQUESTER
    /\ cbpc = "idle"
    /\ image_.id = 1
    /\ sem_count = 1

\* C8: the semaphore never holds more than one token; a give on a signalled
\* semaphore leaves exactly one token; a token is removed only by the
\* worker's take (or with the semaphore itself, in on_shutdown).
C8_BinarySemaphore ==
    /\ sem_count <= 1
    /\ [][/\ sem_count' <= 1
          /\ (cbpc = "give" /\ cbpc' = "idle" /\ semaphore_ = "valid") =>
                sem_count' = 1
          /\ sem_count' < sem_count =>
                \/ (wpc = "take" /\ wpc' = "lock")
                \/ (spc = "sem" /\ spc' = "done")]_vars

\* C8 witness: the callback is about to signal a semaphore that is already
\* signalled and that the worker has not yet waited on
C8_Witness ==
    /\ cbpc = "give"
    /\ sem_count = 1
    /\ semaphore_ = "valid"
    /\ cycle = 0

\* C9: when width * height * 3 exceeds the tensor's capacity decode_jpg
\* fails and the tensor keeps every byte; when it does not exceed it the
\* size check passes (an undamaged frame is decoded and Invoke follows).
C9_OversizeRejectedUntouched ==
    [][(wpc = "decode" /\ wpc' \notin {"decode", "deleted"}) =>
          LET need == FrameWidth(w_image.kind) * FrameHeight(w_image.kind) * 3
          IN  /\ need > Len(input_tensor) =>
                    /\ input_tensor' = input_tensor
                    /\ wpc' = "top"
                    /\ obs'.outcome = "decode_failed"
              /\ (need <= Len(input_tensor) /\ ~FrameCorrupt(w_image.kind)) =>
                    /\ wpc' = "invoke"
                    /\ \A i \in 1 .. need :
                          input_tensor'[i] \in
                              {FramePixels(w_image.kind)[i],
                               Xor80(FramePixels(w_image.kind)[i])}]_vars

\* C9 witness: a cycle ended in a decode failure on the oversized frame
C9_Witness ==
    /\ obs.outcome = "decode_failed"
    /\ obs.frame.kind = "big"
    /\ wpc = "top"

\* C10: whenever decode_jpg returns false the input tensor holds what it
\* held before the call.
C10_DecodeAllOrNothing ==
    [][(wpc = "decode" /\ obs'.outcome = "decode_failed") =>
          input_tensor' = input_tensor]_vars

\* C11: the worker issues request_image for its next cycle only when no
\* result of an earlier completed cycle is still waiting for the host loop:
\* at the request step the pending flag is clear, or loop() has already made
\* its publish_state call and is about to clear the flag.
C11_RequestAfterPublish ==
    [][(wpc = "request" /\ wpc' = "take") =>
          (~result_ready_ \/ lpc = "clear")]_vars

\* C12: publish_state is called only when the stable label changed: no two
\* consecutive publish_state calls of the host loop carry the same label.
C12_PublishOnlyOnChange ==
    \A i \in 1 .. (Len(published) - 1) : published[i] # published[i + 1]

\* C13: loop() called while result_ready_ is false does nothing: a step taken
\* while the host loop is between polls and the flag is clear leaves the loop
\* between polls and calls no publish_state; whatever changes in such a step
\* is the worker's, the callback's or shutdown's doing, and a step that changes
\* none of their positions changes nothing the component owns.
C13_PollWithoutResultIsNoOp ==
    [][(lpc = "idle" /\ ~result_ready_) =>
          /\ lpc' = "idle"
          /\ published' = published
          /\ (wpc' = wpc /\ cbpc' = cbpc /\ spc' = spc /\ status' = status) =>
                 UNCHANGED <<result_ready_, pending_state_, prediction_history,
                             last_index, image_>>]_vars

\* the loop is polled again after a publish, with nothing pending
C13_Witness ==
    /\ status = "ready"
    /\ lpc = "idle"
    /\ ~result_ready_
    /\ Len(published) = 1
    /\ wpc = "take"

\* C14: every time loop() finds the flag set it makes exactly one
\* publish_state call, with the value it reads from the cached label, and then
\* clears the flag; the flag is false when loop() returns, and polls publish
\* nothing more until the worker completes another cycle, so there are never
\* more publish_state calls than completed worker cycles.
C14_PublishOncePerPendingResult ==
    /\ [](Len(published) <= Len(samples))
    /\ [][/\ (lpc = "idle" /\ lpc' = "publish") => result_ready_
          /\ (lpc = "publish" /\ lpc' # "publish") =>
                 /\ lpc' = "clear"
                 /\ \E label \in ReadPending :
                        published' = Append(published, label)
          /\ (lpc = "clear" /\ lpc' # "clear") =>
                 /\ lpc' = "idle"
                 /\ ~result_ready_'
                 /\ published' = published
          /\ published' # published => lpc = "publish"]_vars

\* the loop has published two results of two completed cycles and found
\* the flag clear afterwards
C14_Witness ==
    /\ Len(published) = 2
    /\ Len(samples) = 2
    /\ lpc = "idle"
    /\ ~result_ready_

\* C15: publish_state is never called from the inference task: every step
\* that adds a label to the published sequence is the host loop's publish
\* step (loop() moving from its publish_state call to the flag reset) and
\* moves neither the worker nor the callback; no step of the worker publishes
\* or moves the loop, and the worker ends a completed cycle by setting the
\* pending flag.
C15_PublishOnlyFromLoop ==
    [][/\ published' # published =>
              /\ lpc = "publish"
              /\ lpc' = "clear"
              /\ wpc' = wpc
              /\ cbpc' = cbpc
       /\ (wpc' # wpc /\ spc' = spc) =>
              /\ published' = published
              /\ lpc' = lpc
       /\ (wpc = "set_ready" /\ wpc' = "top") => result_ready_']_vars

\* the worker has handed over a result and the loop, not the worker, is in
\* the middle of publishing it
C15_Witness ==
    /\ Len(published) = 1
    /\ lpc = "clear"
    /\ wpc = "top"
    /\ obs.outcome = "ok"

\* C16: in the synchronous variant a pass of loop() calls publish_state
\* exactly once when acquisition, decode and inference all succeeded, whether
\* or not the label differs from the one published before, and not at all
\* otherwise: the published sequence grows only in the last step of a pass
\* whose start_infer returned true, by exactly one label; every such pass
\* takes that step; a pass reaches it exactly when Invoke returned kTfLiteOk
\* on a decoded frame; and a pass that ends with a missing frame, a decode
\* failure or a failed inference ends with the published sequence untouched.
C16_SyncPublishOncePerCompletedPass ==
    [][/\ published' # published =>
              /\ lpc = "smooth"
              /\ lpc' = "idle"
              /\ w_infer = "ok"
              /\ obs'.outcome = "ok"
              /\ Len(published') = Len(published) + 1
       /\ (lpc = "smooth" /\ lpc' # lpc) =>
              Len(published') = Len(published) + 1
       /\ (lpc' = "smooth" /\ lpc # "smooth") =>
              (lpc = "invoke" /\ w_infer' = "ok")
       /\ (obs'.outcome \in FailedOutcomes /\ obs' # obs) =>
              (lpc' = "idle" /\ published' = published)]_vars

\* two passes in a row completed with the same stable label, and both
\* published it
C16_Witness ==
    /\ published = <<"empty", "empty">>
    /\ lpc = "idle"
    /\ cycle = 2
    /\ obs.outcome = "ok"
    /\ inference_task_handle_ = FALSE

\* C17: once setup has failed the component stays failed for good: setup is
\* not run again, the worker task does not exist, and no frame is requested
\* or accepted, nothing is decoded or inferred, no sample is recorded and no
\* state is published.
C17_SetupFailureIsPermanent ==
    /\ [](status = "failed" =>
             /\ wpc = "none"
             /\ ~requested
             /\ cycle = 0
             /\ image_ = NoFrame
             /\ in_flight = 0
             /\ input_tensor = ZeroTensor
             /\ samples = <<>>
             /\ ~result_ready_
             /\ published = <<>>)
    /\ [][status # "construction" => status' = status]_vars

\* setup has failed and time has moved on to the shutdown of the device
C17_Witness ==
    /\ status = "failed"
    /\ spc = "sem"

\* C18: an acquisition timeout, a decode failure or a failed inference ends
\* only the cycle it happened in: the step that records such an outcome leaves
\* the component ready and the worker alive at the top of its loop; from there
\* the worker's next steps are the next request_image; and the task is only
\* ever deleted by on_shutdown.
C18_SteadyStateFailuresRecover ==
    /\ [](obs.outcome \in FailedOutcomes => status = "ready")
    /\ [][/\ (obs'.outcome \in FailedOutcomes /\ obs' # obs) =>
                 /\ wpc' = "top"
                 /\ inference_task_handle_'
                 /\ status' = "ready"
          /\ (wpc = "top" /\ wpc' # wpc /\ spc' = spc) => wpc' = "request"
          /\ (wpc = "request" /\ wpc' # wpc /\ spc' = spc) =>
                 (wpc' = "take" /\ requested')
          /\ (wpc' = "deleted" /\ wpc # "deleted") => spc = "task"]_vars

\* the first cycle failed (no sample recorded), the second one, with a good
\* frame, completed and recorded its sample
C18_Witness ==
    /\ cycle = 2
    /\ obs.outcome = "ok"
    /\ Len(samples) = 1
    /\ result_ready_
    /\ wpc = "top"

\* C19: on_shutdown runs its three steps in order: it first clears the held
\* frame reference, touching neither the task nor the semaphore; then it
\* deletes the worker task, leaving the semaphore alone; and only then deletes
\* the semaphore. The semaphore is never deleted while the task exists.
C19_ShutdownOrder ==
    /\ [](semaphore_ = "null" => (wpc = "deleted" /\ ~inference_task_handle_))
    /\ [][/\ (spc = "none" /\ spc' # spc) =>
                 /\ spc' = "task"
                 /\ image_' = NoFrame
                 /\ wpc' = wpc
                 /\ inference_task_handle_' = inference_task_handle_
                 /\ semaphore_' = semaphore_
          /\ (spc = "task" /\ spc' # spc) =>
                 /\ spc' = "sem"
                 /\ ~inference_task_handle_'
                 /\ status = "ready" => wpc' = "deleted"
                 /\ semaphore_' = semaphore_
          /\ (spc = "sem" /\ spc' # spc) => spc' = "done"
          /\ semaphore_' = "null" =>
                 (wpc = "deleted" /\ ~inference_task_handle_)]_vars

\* shutdown has finished on a component whose worker was in the middle of a
\* cycle: the task is gone and the semaphore has been deleted
C19_Witness ==
    /\ spc = "done"
    /\ semaphore_ = "null"
    /\ wpc = "deleted"
    /\ cycle >= 1
    /\ obs.outcome = "running"

\* how often class c occurs in the sequence s
CountIn(s, c) == Cardinality({i \in 1 .. Len(s) : s[i] = c})

\* the most frequent class of s, the lowest index among equally frequent ones
ModeOf(s) ==
    CHOOSE c \in ClassIdx :
        /\ \A d \in ClassIdx : CountIn(s, c) >= CountIn(s, d)
        /\ \A d \in ClassIdx : d < c => CountIn(s, d) < CountIn(s, c)

\* the last W samples handed to decide_state
LastWindow ==
    SubSeq(samples, Len(samples) - PREDICTION_HISTORY_SIZE + 1, Len(samples))

\* C20: for every sequence of class indices fed to decide_state: the n-th
\* sample is stored in slot (n - 1) mod W, which is the slot holding the
\* oldest sample, and the write index moves on to n mod W; once W samples
\* have been recorded the buffer holds exactly the last W samples and the
\* value returned is their mode, the lowest class index winning a tie.
C20_MajorityVoteIsModeOfWindow ==
    /\ last_index = Len(samples) % PREDICTION_HISTORY_SIZE
    /\ \A n \in 1 .. Len(samples) :
          n > Len(samples) - PREDICTION_HISTORY_SIZE =>
              prediction_history[(n - 1) % PREDICTION_HISTORY_SIZE] = samples[n]
    /\ Len(samples) >= PREDICTION_HISTORY_SIZE => w_index = ModeOf(LastWindow)

\* eight samples: the first one has been overwritten, and the last seven
\* hold classes 1 and 2 three times each, so the tie goes to class 1
C20_Witness ==
    /\ samples = <<2, 2, 2, 2, 1, 1, 1, 0>>
    /\ prediction_history[0] = 0
    /\ w_index = 1

\* C21: once the window holds W samples of one class c, a single sample of
\* any class followed by nothing but samples of c leaves the value returned
\* by decide_state at c after every one of these samples.
C21_IsolatedSampleRejected ==
    \A c \in ClassIdx :
        (/\ \A j \in 0 .. (PREDICTION_HISTORY_SIZE - 1) : obs.hist[j] = c
         /\ Len(samples) >= 1
         /\ \A n \in 2 .. Len(samples) : samples[n] = c)
        => w_index = c

\* a window full of class 0 took one sample of class 2 and then enough
\* samples of class 0 to push the outlier out of the window again
C21_Witness ==
    /\ \A j \in 0 .. (PREDICTION_HISTORY_SIZE - 1) : obs.hist[j] = 0
    /\ Len(samples) = PREDICTION_HISTORY_SIZE + 1
    /\ samples[1] = 2
    /\ \A n \in 2 .. Len(samples) : samples[n] = 0
    /\ \A j \in 0 .. (PREDICTION_HISTORY_SIZE - 1) : prediction_history[j] = 0
    /\ w_index = 0

\* C22: from any buffer contents and write index, once the raw class is a
\* constant d the value returned by decide_state is d after W samples at the
\* latest, and once it is d it stays d for as long as the input stays d.
C22_LagAtMostWindow ==
    /\ [](\A d \in ClassIdx :
             (/\ Len(samples) >= PREDICTION_HISTORY_SIZE
              /\ \A n \in 1 .. Len(samples) : samples[n] = d)
             => w_index = d)
    /\ [][\A d \in ClassIdx :
             (/\ Len(samples) >= 1
              /\ \A n \in 1 .. Len(samples') : samples'[n] = d
              /\ w_index = d)
             => w_index' = d]_vars

\* a window full of class 0 has been fed class 2 seven times over
C22_Witness ==
    /\ \A j \in 0 .. (PREDICTION_HISTORY_SIZE - 1) : obs.hist[j] = 0
    /\ obs.idx = 3
    /\ samples = <<2, 2, 2, 2, 2, 2, 2>>
    /\ w_index = 2

\* C23: the index returned by get_prediction_result has the maximal score of
\* the vector and is the lowest index that has it; the value is a function of
\* the scores alone, so repeated calls on the same vector agree.
C23_ArgmaxLowestIndex ==
    \A n \in 1 .. Len(samples) :
        /\ \A c \in ClassIdx : output_scores[c] <= output_scores[samples[n]]
        /\ \A c \in ClassIdx :
              c < samples[n] => output_scores[c] < output_scores[samples[n]]
        /\ samples[n] = samples[1]

\* classes 1 and 2 share the top score and the lower index was returned,
\* both times
C23_Witness ==
    /\ output_scores = [c \in ClassIdx |-> IF c = 0 THEN 127 ELSE 255]
    /\ samples = <<1, 1>>

\* C24: the XOR with 0x80 undoes itself: a buffer the loop has run over twice
\* holds in every byte the value it held before, for every byte value.
C24_FlipSelfInverse ==
    /\ cycle = 2 => input_tensor = obs.input
    /\ cycle = 1 => FlipAll(input_tensor) = obs.input

\* the loop has run twice over a buffer holding bytes on both sides of 0x80
C24_Witness ==
    /\ cycle = 2
    /\ obs.input = [i \in 1 .. TensorBytes |-> (126 + i) % 256]
    /\ input_tensor = obs.input

\* C25: one pass of the XOR loop takes every byte x to the byte that, read as
\* int8_t, is x - 128, so the order of the values is kept; and decode_jpg runs
\* the loop exactly when input->type is kTfLiteInt8: after a successful decode
\* the tensor starts with the decoded pixels themselves for a uint8 tensor
\* and with the pixels minus 128 for an int8 tensor.
C25_FlipIsMinus128OnlyForInt8 ==
    /\ [](cycle = 1 =>
             /\ \A i \in 1 .. TensorBytes :
                    AsInt8(input_tensor[i]) = obs.input[i] - 128
             /\ \A i, j \in 1 .. TensorBytes :
                    obs.input[i] < obs.input[j] =>
                        AsInt8(input_tensor[i]) < AsInt8(input_tensor[j]))
    /\ [][(next_frame' # next_frame /\ obs'.outcome = "ok") =>
             \A i \in 1 .. Len(FramePixels(obs'.frame.kind)) :
                 IF input_type = kTfLiteInt8
                 THEN AsInt8(input_tensor'[i]) = FramePixels(obs'.frame.kind)[i] - 128
                 ELSE input_tensor'[i] = FramePixels(obs'.frame.kind)[i]]_vars

\* an int8 tensor after the decode of the pixels 0, 127, 255: the bytes
\* read as int8_t are -128, -1, 127
C25_Witness ==
    /\ input_type = kTfLiteInt8
    /\ obs.outcome = "ok"
    /\ obs.frame.kind = "small"
    /\ cycle = 0
    /\ AsInt8(input_tensor[1]) = -128
    /\ AsInt8(input_tensor[2]) = -1
    /\ AsInt8(input_tensor[3]) = 127

\* the raw classification has been the one class c from the first sample on,
\* the sample just recorded included
ConstantStream(c) ==
    /\ samples' # samples
    /\ \A n \in 1 .. Len(samples') : samples'[n] = c

\* C26 as stated: from zero accumulators and a constant class c, every update
\* makes acc_c strictly greater than before and leaves it below 1, no other
\* accumulator increases, and the class returned is c as soon as acc_c
\* exceeds every other accumulator.
C26_EmaStrictlyIncreasing ==
    [][\A c \in ClassIdx : ConstantStream(c) =>
          /\ current_predictions'[c] > current_predictions[c]
          /\ current_predictions'[c] < One
          /\ \A o \in ClassIdx \ {c} :
                current_predictions'[o] <= current_predictions[o]
          /\ (\A o \in ClassIdx \ {c} :
                 current_predictions'[c] > current_predictions'[o])
             => w_index' = c]_vars

\* C26 amended: from zero accumulators and a constant class c, no update
\* makes acc_c smaller, acc_c stays below 1, and the update makes acc_c
\* strictly greater as long as acc_c is more than 1 / (2 * alpha)
\* representable steps away from 1; no other accumulator increases, and the
\* class returned is c as soon as acc_c exceeds every other accumulator.
C26_EmaMonotoneUntilSaturated ==
    [][\A c \in ClassIdx : ConstantStream(c) =>
          /\ current_predictions'[c] >= current_predictions[c]
          /\ 2 * ema_alpha * (One - current_predictions[c]) > One =>
                current_predictions'[c] > current_predictions[c]
          /\ current_predictions'[c] < One
          /\ \A o \in ClassIdx \ {c} :
                current_predictions'[o] <= current_predictions[o]
          /\ (\A o \in ClassIdx \ {c} :
                 current_predictions'[c] > current_predictions'[o])
             => w_index' = c]_vars

\* the accumulator of the constant class has come so close to 1 that the
\* next update can no longer raise it
C26_Witness ==
    /\ Len(samples) >= 2
    /\ \A n \in 1 .. Len(samples) : samples[n] = 1
    /\ w_index = 1
    /\ current_predictions[1] < One
    /\ 2 * ema_alpha * (One - current_predictions[1]) <= One
    /\ ema_update(current_predictions[1], ema_alpha, 1) = current_predictions[1]

\* C27: with all accumulators at 0 the first sample of class c leaves
\* acc_c = alpha and the other accumulators 0, and c is the class returned
\* for that sample; the same holds for the update computed with any alpha in
\* (0, 1], not only the 0.2 of the program.
C27_EmaFirstSampleWins ==
    /\ Len(samples) = 1 =>
          /\ current_predictions[samples[1]] = ema_alpha
          /\ \A o \in ClassIdx \ {samples[1]} : current_predictions[o] = 0
          /\ w_index = samples[1]
    /\ \A alpha \in 1 .. One, c \in ClassIdx :
          LET r == decide_state_ema(ZeroAcc, alpha, c)
          IN  /\ r.acc[c] = alpha
              /\ \A o \in ClassIdx \ {c} : r.acc[o] = 0
              /\ r.result = c

\* one frame of class 1 ("nachi") on a fresh smoother: 0.2 against 0 and 0
C27_Witness ==
    /\ samples = <<1>>
    /\ current_predictions = [c \in ClassIdx |-> IF c = 1 THEN ema_alpha ELSE 0]
    /\ w_index = 1

\* the places a delivered frame can be held: the callback's argument, the
\* handoff slot, the worker's local image
FrameHolders == <<cb_image, image_, w_image>>

\* C28: frames are single-use and singly owned: no frame is held in two
\* places at once, so the worker's one local image is the only copy of the
\* frame it works on; the swap in wait_for_image_ hands the slot's content
\* to the worker and leaves the slot empty; and the frame a cycle processes
\* was not processed by any earlier cycle.
C28_FramesSingleUse ==
    /\ [](\A i, j \in 1 .. 3 :
            (i # j /\ FrameHolders[i] # NoFrame) =>
                FrameHolders[i] # FrameHolders[j])
    /\ [](obs.frame # NoFrame => obs.frame.id \notin obs.used)
    /\ [](wpc \in {"decode", "invoke", "smooth"} =>
            (w_image # NoFrame /\ w_image = obs.frame))
    /\ [][(wpc = "swap" /\ wpc' = "unlock") =>
            (w_image' = image_ /\ image_' = NoFrame)]_vars

\* the second cycle decodes frame 2 after the first cycle processed frame 1
C28_Witness ==
    /\ wpc = "decode"
    /\ obs.used = {1}
    /\ w_image # NoFrame /\ w_image.id = 2
    /\ image_ = NoFrame

\* a step of the image callback: its position moves, or the camera
\* delivers a frame (one it did not ask for is dropped on the spot)
CallbackStep == cbpc' # cbpc \/ next_frame' # next_frame

\* C29: the image callback never touches the arena: a callback step,
\* whether the frame is accepted or not, leaves the input and output
\* tensors, the prediction history, the ready flag, the pending label and
\* the published states as they were; of the component's members it
\* changes only the handoff slot, its mutex and the semaphore.
C29_CallbackLeavesArenaAlone ==
    [][CallbackStep =>
         /\ UNCHANGED <<input_type, input_buffer, input_tensor, output_scores>>
         /\ UNCHANGED <<prediction_history, last_index, samples,
                        current_predictions>>
         /\ UNCHANGED <<result_ready_, pending_state_, published>>
         /\ UNCHANGED <<status, inference_task_handle_, semaphore_,
                        callback_registered>>]_vars

\* the callback has stored frame 2 and given the semaphore while the
\* worker is decoding frame 1 into the input tensor
C29_Witness ==
    /\ cbpc = "idle"
    /\ image_ # NoFrame /\ image_.id = 2
    /\ sem_count = 1
    /\ wpc = "decode"
    /\ w_image # NoFrame /\ w_image.id = 1

\* the order of the worker's steps inside one iteration of inference_task:
\* request, await (take, lock, swap, unlock, got), clear, decode, infer,
\* smooth, store, set ready; "top" after a skip or at the end
WorkerOrder ==
    {<<"top", "request">>, <<"request", "take">>,
     <<"take", "lock">>, <<"take", "got">>, <<"lock", "swap">>,
     <<"swap", "unlock">>, <<"unlock", "got">>,
     <<"got", "top">>, <<"got", "clear">>, <<"clear", "start_infer">>,
     <<"start_infer", "decode">>, <<"decode", "invoke">>, <<"decode", "top">>,
     <<"invoke", "smooth">>, <<"invoke", "top">>, <<"smooth", "store">>,
     <<"store", "storing">>, <<"storing", "set_ready">>,
     <<"set_ready", "top">>}

\* C30: inside a worker cycle the steps come only in the order request,
\* await, decode, infer, smooth, publish-or-skip: Invoke is reached only
\* from a decode_jpg that succeeded on the frame this cycle acquired,
\* get_prediction_result and decide_state run only after Invoke returned
\* ok in this cycle, and the pending label and the ready flag are set only
\* after decide_state has returned.
C30_WorkerStepOrder ==
    /\ [][(wpc' # wpc /\ wpc # "none" /\ wpc' # "deleted") =>
             /\ <<wpc, wpc'>> \in WorkerOrder
             /\ cycle' = IF wpc = "request" THEN cycle + 1 ELSE cycle]_vars
    /\ [][(wpc' = "invoke" /\ wpc # "invoke") =>
             (wpc = "decode" /\ w_image # NoFrame /\ w_image = obs.frame
              /\ obs.outcome = "running")]_vars
    /\ [][(wpc' = "smooth" /\ wpc # "smooth") =>
             (wpc = "invoke" /\ w_infer' = "ok")]_vars
    /\ [][<<prediction_history, last_index, samples>>' #
             <<prediction_history, last_index, samples>> =>
             (wpc = "smooth" /\ wpc' = "store" /\ w_infer = "ok")]_vars
    /\ [][pending_state_' # pending_state_ => wpc = "storing"]_vars
    /\ [][(result_ready_' /\ ~result_ready_) => wpc = "set_ready"]_vars
    /\ [](wpc \in {"store", "storing", "set_ready"} =>
             (w_infer = "ok" /\ samples # <<>>
              /\ w_index = ArgMaxLoop(ClassCounts(prediction_history), 1, 0)))

\* the second cycle has decoded, inferred and smoothed its own frame and
\* stored the label; the ready flag of the first cycle was cleared by loop()
C30_Witness ==
    /\ wpc = "set_ready"
    /\ cycle = 2
    /\ Len(samples) = 2
    /\ obs.frame # NoFrame /\ obs.frame.id = 2
    /\ pending_state_ = CLASSES[w_index + 1]
    /\ ~result_ready_

\* the positions of the worker inside a started cycle: from the wait for
\* a frame to the store of the result
InCycle ==
    wpc \in {"take", "lock", "swap", "unlock", "got", "clear", "start_infer",
             "decode", "invoke", "smooth", "store", "storing", "set_ready"}

\* C31: the worker's wait for a frame is bounded: wait_for_image_ returns,
\* with a frame or with none, also when no callback ever comes, and every
\* started cycle gets back to the top of the worker's loop (or the task is
\* deleted by on_shutdown); the program is never aborted inside a cycle.
C31_WorkerNeverBlocksForever ==
    /\ [](wpc = "take" => <>(wpc \in {"got", "deleted"}))
    /\ [](InCycle => <>(wpc \in {"top", "deleted"}))
    /\ [](InCycle => crashed = "none")

\* wait_for_image_ has returned without a frame and no frame was ever
\* delivered to the callback
C31_Witness ==
    /\ wpc = "got"
    /\ w_image = NoFrame
    /\ next_frame = 1
    /\ cbpc = "idle"
    /\ sem_count = 0

\* C32 (as claimed): whenever the semaphore is available the handoff slot
\* holds a frame, so a successful xSemaphoreTake is followed by a swap that
\* returns a frame and the cycle is not reported as "failed to acquire
\* frame".
C32_TokenImpliesFrame ==
    /\ []((semaphore_ = "valid" /\ sem_count > 0) => image_ # NoFrame)
    /\ [][(wpc = "swap" /\ wpc' = "unlock") => w_image' # NoFrame]_vars

\* C33 (as claimed): no completed result is lost between the worker and
\* loop(): whenever result_ready_ is false and the worker is not in the
\* middle of storing a result, the last published label is the label of
\* the most recently completed cycle, which is what pending_state_ holds
\* then (on_shutdown and torn reads of the label left aside).
C33_NoResultLost ==
    (/\ ~result_ready_
     /\ wpc \notin {"storing", "set_ready"}
     /\ spc = "none"
     /\ \A i \in 1 .. Len(published) : published[i] # TORN)
    => (/\ published # <<>>
        /\ published[Len(published)] = pending_state_)

\* C34 (as claimed): the frame a worker cycle processes was delivered to
\* the callback after that cycle's own request_image call (obs.asked is
\* the number the next delivered frame gets at the time of the call), and
\* the token its xSemaphoreTake consumes does not date from before the
\* call.
C34_FrameAnswersOwnRequest ==
    /\ [](obs.frame # NoFrame => obs.frame.id >= obs.asked)
    /\ [][(wpc = "request" /\ wpc' = "take") => sem_count = 0]_vars

\* C35 (as claimed): on_shutdown never deletes the worker task while the
\* worker holds image_lock_: once the task is deleted the mutex is not
\* left locked by it, so a callback arriving later can lock it.
C35_ShutdownLeavesMutexFree ==
    /\ [][(spc = "task" /\ spc' = "sem") => image_lock_ # "worker"]_vars
    /\ [](spc \in {"sem", "done"} => image_lock_ # "worker")

\* C36 (as claimed): on_shutdown deletes the semaphore only if setup
\* created it: after a setup that failed before xSemaphoreCreateBinary,
\* on_shutdown does not hand the never created handle to vSemaphoreDelete.
C36_DeleteOnlyCreatedSemaphore ==
    /\ [][(spc = "sem" /\ spc' = "done") => semaphore_ = "valid"]_vars
    /\ [](crashed # "delete_of_uncreated_semaphore")

\* C37: before the window is full the unfilled slots vote as class 0:
\* from the initial state (W = 7) a constant stream of a class c other
\* than 0 gives the stable output 0 for the first 3 samples and c from the
\* 4th sample on.  w_index is what decide_state returned for the last
\* sample.
C37_ColdStartVotesEmpty ==
    (/\ samples # <<>>
     /\ samples[1] # 0
     /\ \A i \in 1 .. Len(samples) : samples[i] = samples[1])
    => (/\ Len(samples) <= 3 => w_index = 0
        /\ Len(samples) >= 4 => w_index = samples[1])

\* the 4th sample of class 2 has just turned the output from 0 to 2
C37_Witness ==
    /\ samples = <<2, 2, 2, 2>>
    /\ w_index = 2
    /\ last_index = 4
    /\ prediction_history[4] = 0

\* C38 (as claimed): after a successful decode_jpg into an int8 input
\* tensor that is larger than the decoded frame, every tensor byte inside
\* the decoded region is the decoded byte XOR 0x80 and every tensor byte
\* outside it holds the value it had before the call.
C38_FlipOnlyDecodedRegion ==
    [][(/\ wpc = "decode" /\ wpc' = "invoke"
        /\ input_type = kTfLiteInt8
        /\ Len(FramePixels(w_image.kind)) < Len(input_tensor))
       => LET n == Len(FramePixels(w_image.kind))
          IN  /\ \A i \in 1 .. n :
                    input_tensor'[i] = Xor80(FramePixels(w_image.kind)[i])
              /\ \A i \in (n + 1) .. Len(input_tensor) :
                    input_tensor'[i] = input_tensor[i]]_vars

\* C39 (as claimed): in the synchronous variant, whatever the frame's
\* width and height, the output capacity decode_jpg declares to the JPEG
\* decoder and the number of bytes start_infer copies out of the staging
\* buffer do not exceed the size the staging buffer was allocated with.
C39_StagingBufferBoundsKept ==
    lpc = "decode" =>
        /\ outbuf_size(FrameWidth(w_image.kind), FrameHeight(w_image.kind))
              <= Len(input_buffer)
        /\ Len(input_tensor) <= Len(input_buffer)

\* C40: in every reachable state of the majority-vote smoother last_index
\* is in 0..W-1 and every buffer entry is a class index in 0..2; the index
\* get_prediction_result returns (for any three scores) and the index
\* decide_state returns are in 0..2, so class_counts[] and CLASSES[] are
\* never indexed out of range.
C40_IndicesInRange ==
    /\ last_index \in 0 .. (PREDICTION_HISTORY_SIZE - 1)
    /\ DOMAIN prediction_history = 0 .. (PREDICTION_HISTORY_SIZE - 1)
    /\ \A i \in DOMAIN prediction_history : prediction_history[i] \in ClassIdx
    /\ w_index \in ClassIdx
    /\ (w_index + 1) \in DOMAIN CLASSES
    /\ \A sc \in [ClassIdx -> ScoreLevels] : get_prediction_result(sc) \in ClassIdx
    /\ \A c \in ClassIdx :
          LET r == decide_state(prediction_history, last_index, c)
          IN  /\ r.idx \in 0 .. (PREDICTION_HISTORY_SIZE - 1)
              /\ r.result \in ClassIdx
              /\ \A i \in DOMAIN r.hist : r.hist[i] \in ClassIdx

\* the write index has wrapped: the 7th sample went into slot 6 and the
\* 8th into slot 0
C40_Witness ==
    /\ Len(samples) = 8
    /\ last_index = 1
    /\ prediction_history[0] = samples[8]
    /\ prediction_history[6] = samples[7]
    /\ samples[8] = 2

============================================================================
